---- MODULE Spec2Model ----
(***************************************************************************)
(* Verification model of DiHydrogen's kernel dispatch (h2/core/dispatch),  *)
(* raw buffer copy (h2/tensor/copy_buffer), stream synchronization         *)
(* (h2/core/sync) and tensor copies (h2/tensor/copy).                      *)
(*                                                                         *)
(* Unsigned machine integers are modelled as the set of positions of      *)
(* their 1-bits inside a fixed width, so that shifts that push bits out    *)
(* of the word lose them and bitwise-or is set union.                      *)
(***************************************************************************)
EXTENDS Integers, Sequences, FiniteSets, TLC

VARIABLES
  tokens,        \* std::array<TypeInfo::TokenType, N> handed to the key codec
  dispatch_key,  \* result of internal::get_dispatch_key(tokens), or NoKey
  native_key,    \* result of get_native_dispatch_key(tokens), or NoKey
  registry,      \* the process-wide (name, key) -> DispatchFunctionEntry table
  lastOp,        \* the last dispatch API call and what it did
  has_gpu,       \* whether the build defines H2_HAS_GPU
  mem,           \* contents of the raw buffers
  queue,         \* per GPU stream: the operations enqueued and not yet run
  copies,        \* number of copy_buffer calls made so far
  lastCopy,      \* the last copy_buffer call and how it was routed
  events,        \* per SyncEvent: the stream work captured by its last record
  executed,      \* per GPU stream: number of operations the device has run
  multi_syncs,   \* history: the GPU to GPU copies issued and what preceded them
  edges,         \* history: the waits issued and what they wait for
  h2_debug,      \* whether the build defines H2_DEBUG
  is_integrated, \* what gpu::is_integrated() returns
  tensors,       \* the Tensor objects: src, dst, and the last tensor returned
  dtensors,      \* per process: its DistTensor objects src and dst
  priors,        \* history: tensors and dtensors as constructed
  lastCall,      \* per caller: the last tensor call and what it did
  handles,       \* the ComputeStream and SyncEvent objects created so far
  handle_map,    \* per handle type: a std::unordered_map from handles to int
  expected,      \* history: per device context, the value last stored under it
  holders,       \* the tensors, views and weak views created so far
  heap,          \* the raw allocations: reference count, freed or not, contents
  written,       \* history: per tensor, the value last written to its data
  h2_tensor,     \* the Tensor handed to as_h_mat
  h_matrix,      \* the El::Matrix handed to as_h2_tensor
  converted,     \* the last conversion made and what it returned
  region,        \* the shape and the start index handed to for_ndim, and
                 \* whether for_ndim has been called
  f_calls,       \* the indices that for_ndim has passed to f, in order
  walk           \* the indices obtained by repeating next_scalar_index

keyVars == <<tokens, dispatch_key, native_key>>

dispatchVars == <<registry, lastOp>>

copyVars == <<has_gpu, mem, queue, copies, lastCopy>>

syncVars == <<events, executed, multi_syncs, edges>>

tensorVars == <<h2_debug, is_integrated, tensors, dtensors, priors, lastCall>>

handleVars == <<handles, handle_map, expected>>

bufferVars == <<holders, heap, written>>

interopVars == <<h2_tensor, h_matrix, converted>>

ndVars == <<region, f_calls, walk>>

vars == <<keyVars, dispatchVars, copyVars, syncVars, tensorVars,
         handleVars, bufferVars, interopVars, ndVars>>

(***************************************************************************)
(* Bounds of the model.                                                    *)
(***************************************************************************)
\* Largest number of types for which native keys are enumerated.
MaxNativeArity == 3

\* Largest number of entries held by the registry at one time.
MaxEntries == 2

\* Number of elements of each raw buffer.
BufLen == 2

\* Largest number of copy_buffer calls in a behaviour.
MaxCopies == 2

\* Largest number of stream waits issued in a behaviour.
MaxEdges == 1

\* Largest extent, in elements, of the layout of a tensor.
MaxExtent == 3

\* Largest number of ComputeStream and SyncEvent objects created.
MaxHandles == 3

\* Number of buckets of an unordered_map.
MaxBuckets == 2

\* Largest number of tensors, views and weak views created.
MaxHolders == 3

\* Largest rank, extent and stride of the tensors viewed as matrices.
MaxRank == 3

MaxDim == 2

MaxStride == 4

(***************************************************************************)
(* Integer helpers (h2/utils/IntegerMath.hpp).                             *)
(***************************************************************************)
RECURSIVE ceillog2_from(_, _)
ceillog2_from(n, k) == IF 2^k >= n THEN k ELSE ceillog2_from(n, k + 1)

\* Smallest k with 2^k >= n.
ceillog2(n) == ceillog2_from(n, 0)

\* Number of bytes needed to hold the given number of bits.
byteceil(bits) == (bits + 7) \div 8

\* sizeof(UTypeForBytes<bytes>::type): the unsigned type of 1, 2, 4 or 8 bytes.
UTypeForBytes(bytes) ==
  IF bytes <= 1 THEN 1 ELSE IF bytes <= 2 THEN 2 ELSE IF bytes <= 4 THEN 4 ELSE 8

(***************************************************************************)
(* Unsigned words as sets of 1-bit positions.                              *)
(***************************************************************************)
\* The word of the given width holding the value n (0 <= n < 2^31).
ToWord(n, width) == {i \in 0..(width - 1) : i <= 30 /\ (n \div (2^i)) % 2 = 1}

\* v << s in a word of the given width: bits pushed past the top are lost.
Shl(v, s, width) == {i + s : i \in {j \in v : j + s < width}}

\* Conversion of a word to a narrower (or equal) unsigned type.
Truncate(v, width) == {i \in v : i < width}

\* The unsigned value of bits lo .. lo+w-1 of v (w <= 30).
RECURSIVE FieldSum(_, _, _)
FieldSum(v, lo, w) ==
  IF w = 0 THEN 0
  ELSE (IF (lo + w - 1) \in v THEN 2^(w - 1) ELSE 0) + FieldSum(v, lo, w - 1)

Field(v, lo, w) == FieldSum(v, lo, w)

(***************************************************************************)
(* Type tokens (h2/core/types.hpp).                                        *)
(***************************************************************************)
\* Number of native H2 compute types: float, double, int32, uint32.
NumComputeTypes == 4

\* TypeInfo::max_token: the largest type token.
max_token == 255

NativeTokens == 0..(NumComputeTypes - 1)

(***************************************************************************)
(* Dispatch key layout.                                                    *)
(***************************************************************************)
\* Variant: floor instead of ceiling of the logarithm.
dispatch_bits_per_native_floor == ceillog2(NumComputeTypes) - 1

dispatch_bits_per_native_compute_type == ceillog2(NumComputeTypes)

dispatch_bits_per_compute_type == ceillog2(max_token - 1)

\* sizeof(DispatchKeyT) in bytes.
DispatchKeyBytes == UTypeForBytes(8)

DispatchKeyWidth == DispatchKeyBytes * 8

max_dispatch_types == ((DispatchKeyBytes - 1) * 8) \div dispatch_bits_per_compute_type

dispatch_key_top_byte_shift == (DispatchKeyBytes - 1) * 8

\* Width in bits of NativeDispatchKeyT<num_types>.
NativeDispatchKeyWidth(num_types) ==
  8 * UTypeForBytes(byteceil(dispatch_bits_per_native_compute_type * num_types))

(***************************************************************************)
(* Key construction.                                                       *)
(***************************************************************************)
\* Variant: the first token is the rightmost field instead of the leftmost.
RECURSIVE native_key_loop_first_rightmost(_, _, _)
native_key_loop_first_rightmost(toks, i, key) ==
  LET N == Len(toks)
      W == NativeDispatchKeyWidth(N)
  IN IF i >= N THEN key
     ELSE native_key_loop_first_rightmost(toks, i + 1,
            key \cup Truncate(
              Shl(ToWord(toks[i + 1], DispatchKeyWidth),
                  dispatch_bits_per_native_compute_type * i,
                  DispatchKeyWidth), W))

\* The loop of get_native_dispatch_key, iterations i .. N-1 (0-based i).
RECURSIVE native_key_loop(_, _, _)
native_key_loop(toks, i, key) ==
  LET N == Len(toks)
      W == NativeDispatchKeyWidth(N)
  IN IF i >= N THEN key
     ELSE native_key_loop(toks, i + 1,
            key \cup Truncate(
              Shl(ToWord(toks[i + 1], DispatchKeyWidth),
                  dispatch_bits_per_native_compute_type * (N - 1 - i),
                  DispatchKeyWidth), W))

get_native_dispatch_key(toks) == native_key_loop(toks, 0, {})

\* Variant: the shift counts fields from 1, so the first token is pushed one
\* field too far to the left.
RECURSIVE dispatch_key_loop_shift_from_one(_, _, _)
dispatch_key_loop_shift_from_one(toks, i, key) ==
  LET N == Len(toks)
  IN IF i >= N THEN key
     ELSE dispatch_key_loop_shift_from_one(toks, i + 1,
            key \cup Shl(ToWord(toks[i + 1], DispatchKeyWidth),
                         dispatch_bits_per_compute_type * (N - i),
                         DispatchKeyWidth))

\* The loop of internal::get_dispatch_key, iterations i .. N-1 (0-based i).
RECURSIVE dispatch_key_loop(_, _, _)
dispatch_key_loop(toks, i, key) ==
  LET N == Len(toks)
  IN IF i >= N THEN key
     ELSE dispatch_key_loop(toks, i + 1,
            key \cup Shl(ToWord(toks[i + 1], DispatchKeyWidth),
                         dispatch_bits_per_compute_type * (N - 1 - i),
                         DispatchKeyWidth))

\* Variant: the key starts from 0, without the arity in the top byte.
get_dispatch_key_without_arity(toks) == dispatch_key_loop(toks, 0, {})

get_dispatch_key(toks) ==
  dispatch_key_loop(toks, 0,
    Shl(ToWord(Len(toks), DispatchKeyWidth), dispatch_key_top_byte_shift,
        DispatchKeyWidth))

(***************************************************************************)
(* Inputs of the key codec.                                                *)
(***************************************************************************)
\* "No key has been computed": not a word, since no word has bit -1.
NoKey == {-1}

\* Tokens at the two ends of the native range and at the top of the token
\* range: every bit of a token field is exercised both clear and set.
TokenSamples == {0, NumComputeTypes - 1, max_token}

TuplesOver(S, lo, hi) == UNION {[1..n -> S] : n \in lo..hi}

GeneralTuples == TuplesOver(TokenSamples, 1, max_dispatch_types)

NativeTuples == TuplesOver(NativeTokens, 1, MaxNativeArity)

AllNativeTokens(toks) == \A i \in 1..Len(toks) : toks[i] \in NativeTokens

(***************************************************************************)
(* Compute streams (h2/core/sync.hpp).  A CPU stream is always             *)
(* synchronized: work issued on it is complete when the call returns.  A   *)
(* GPU stream is a FIFO queue of operations that run later, one at a time. *)
(* A wait operation holds the number of operations of the awaited stream   *)
(* that were enqueued before it and have not completed yet.                *)
(***************************************************************************)
ComputeStream(device, id) == [device |-> device, id |-> id]

Streams == {ComputeStream("CPU", 0), ComputeStream("GPU", 1), ComputeStream("GPU", 2)}

GPUStreamIds == {1, 2}

get_device(stream) == stream.device

CopyOp(dst, src, count) ==
  [kind |-> "copy", dst |-> dst, src |-> src, count |-> count,
   on |-> 0, remaining |-> 0]

WaitOp(on, remaining) ==
  [kind |-> "wait", dst |-> "", src |-> "", count |-> 0,
   on |-> on, remaining |-> remaining]

\* gpu::mem_copy(dst, src, count, stream): an asynchronous copy on stream.
mem_copy(q, dst, src, count, stream) ==
  [q EXCEPT ![stream.id] = Append(@, CopyOp(dst, src, count))]

\* create_multi_sync(main, other): the main stream waits for the work
\* enqueued so far on the other stream; the result acts as the main stream.
create_multi_sync(q, main, other) ==
  [stream |-> main,
   queue |-> IF get_device(main) = "GPU" /\ get_device(other) = "GPU"
             THEN [q EXCEPT ![main.id] = Append(@, WaitOp(other.id, Len(q[other.id])))]
             ELSE q]

\* std::memcpy of count elements.
memcpy(m, dst, src, count) ==
  [m EXCEPT ![dst] = [i \in 1..Len(m[dst]) |->
                        IF i <= count THEN m[src][i] ELSE m[dst][i]]]

(***************************************************************************)
(* copy_buffer (h2/tensor/copy_buffer.hpp).                                *)
(***************************************************************************)
CopyEffect(raised, route, m, q) ==
  [raised |-> raised, route |-> route, mem |-> m, queue |-> q]

\* Variant: the GPU to GPU copy is enqueued on the destination stream
\* without a multi-sync.
copy_buffer_without_multi_sync(gpu, m, q, dst, dst_stream, src, src_stream, count) ==
  LET src_dev == get_device(src_stream)
      dst_dev == get_device(dst_stream)
  IN IF src_dev = "CPU" /\ dst_dev = "CPU"
     THEN CopyEffect("none", "memcpy", memcpy(m, dst, src, count), q)
     ELSE IF gpu /\ src_dev = "GPU" /\ dst_dev = "GPU"
     THEN CopyEffect("none", "multi_sync", m,
                     mem_copy(q, dst, src, count, dst_stream))
     ELSE IF gpu /\ src_dev = "CPU" /\ dst_dev = "GPU"
     THEN CopyEffect("none", "dst_stream", m,
                     mem_copy(q, dst, src, count, dst_stream))
     ELSE IF gpu /\ src_dev = "GPU" /\ dst_dev = "CPU"
     THEN CopyEffect("none", "src_stream", m,
                     mem_copy(q, dst, src, count, src_stream))
     ELSE CopyEffect("Unknown device combination", "none", m, q)

\* Variant: the GPU to GPU copy takes the multi-sync of (src_stream,
\* dst_stream), whose main stream is the source stream.
copy_buffer_multi_sync_swapped(gpu, m, q, dst, dst_stream, src, src_stream, count) ==
  LET src_dev == get_device(src_stream)
      dst_dev == get_device(dst_stream)
  IN IF src_dev = "CPU" /\ dst_dev = "CPU"
     THEN CopyEffect("none", "memcpy", memcpy(m, dst, src, count), q)
     ELSE IF gpu /\ src_dev = "GPU" /\ dst_dev = "GPU"
     THEN LET stream == create_multi_sync(q, src_stream, dst_stream)
          IN CopyEffect("none", "multi_sync", m,
                        mem_copy(stream.queue, dst, src, count, stream.stream))
     ELSE IF gpu /\ src_dev = "CPU" /\ dst_dev = "GPU"
     THEN CopyEffect("none", "dst_stream", m,
                     mem_copy(q, dst, src, count, dst_stream))
     ELSE IF gpu /\ src_dev = "GPU" /\ dst_dev = "CPU"
     THEN CopyEffect("none", "src_stream", m,
                     mem_copy(q, dst, src, count, src_stream))
     ELSE CopyEffect("Unknown device combination", "none", m, q)

\* copy_buffer<T>(dst, dst_stream, src, src_stream, count); gpu tells whether
\* the branches under #ifdef H2_HAS_GPU are compiled in.
copy_buffer(gpu, m, q, dst, dst_stream, src, src_stream, count) ==
  LET src_dev == get_device(src_stream)
      dst_dev == get_device(dst_stream)
  IN IF src_dev = "CPU" /\ dst_dev = "CPU"
     THEN CopyEffect("none", "memcpy", memcpy(m, dst, src, count), q)
     ELSE IF gpu /\ src_dev = "GPU" /\ dst_dev = "GPU"
     THEN LET stream == create_multi_sync(q, dst_stream, src_stream)
          IN CopyEffect("none", "multi_sync", m,
                        mem_copy(stream.queue, dst, src, count, stream.stream))
     ELSE IF gpu /\ src_dev = "CPU" /\ dst_dev = "GPU"
     THEN CopyEffect("none", "dst_stream", m,
                     mem_copy(q, dst, src, count, dst_stream))
     ELSE IF gpu /\ src_dev = "GPU" /\ dst_dev = "CPU"
     THEN CopyEffect("none", "src_stream", m,
                     mem_copy(q, dst, src, count, src_stream))
     ELSE CopyEffect("Unknown device combination", "none", m, q)

\* The raw buffers of the model.
Buffers == {"A", "B"}

\* "No copy_buffer call has been made yet".
NoCopy ==
  [dst |-> "", src |-> "", dst_stream |-> ComputeStream("CPU", 0),
   src_stream |-> ComputeStream("CPU", 0), count |-> 0,
   raised |-> "none", route |-> "none"]

(***************************************************************************)
(* Sync events and stream waits (h2/core/sync.hpp).  A GPU event recorded  *)
(* on a stream captures the operations enqueued on that stream so far: on  *)
(* is the stream, remaining the number of them that have not completed,    *)
(* and upto their number counted from the creation of the stream.          *)
(***************************************************************************)
Events == {"event1"}

\* An event that has not been recorded: waiting for it does not block.
NoEvent == [on |-> 0, remaining |-> 0, upto |-> 0]

\* Number of operations ever enqueued on GPU stream id.
Enqueued(ex, q, id) == ex[id] + Len(q[id])

\* stream.add_sync_point(event) for a GPU stream and a GPU event.
add_sync_point(ev, ex, q, stream, event) ==
  [ev EXCEPT ![event] = [on |-> stream.id,
                         remaining |-> Len(q[stream.id]),
                         upto |-> Enqueued(ex, q, stream.id)]]

\* Variant: waiting for an event enqueues nothing.
wait_for_event_unordered(ev, q, stream, event) == q

\* stream.wait_for(event) for a GPU stream: the work enqueued on the stream
\* after the call does not start before the work captured by the event has
\* completed.
wait_for_event(ev, q, stream, event) ==
  [q EXCEPT ![stream.id] = Append(@, WaitOp(ev[event].on, ev[event].remaining))]

\* stream.wait_for(other) for two GPU streams: as recording an event on
\* other and waiting for it on stream.
wait_for_stream(q, stream, other) ==
  [q EXCEPT ![stream.id] = Append(@, WaitOp(other.id, Len(q[other.id])))]

\* The state of the sync layer before anything was recorded or enqueued.
SyncInit ==
  /\ events = [e \in Events |-> NoEvent]
  /\ executed = [s \in GPUStreamIds |-> 0]
  /\ multi_syncs = {}
  /\ edges = {}

(***************************************************************************)
(* Equality and hashing of ComputeStream and SyncEvent (h2/core/sync.hpp). *)
(* An object of either type holds its device and, on the GPU, the raw      *)
(* handle (gpuStream_t, gpuEvent_t) it wraps; a CPU object holds no        *)
(* handle.  context is history: the create_new_* call that made what the   *)
(* object wraps.                                                           *)
(***************************************************************************)
HandleTypes == {"ComputeStream", "SyncEvent"}

\* The raw handle of a CPU object: there is none (a null handle).
NoRaw == 0

Handle(type, device, raw, context) ==
  [type |-> type, device |-> device, raw |-> raw, context |-> context]

\* The raw handles that the objects created so far wrap.
RawHandles(hs, type) ==
  {hs[i].raw : i \in {j \in DOMAIN hs : hs[j].type = type /\ hs[j].raw # NoRaw}}

\* create_new_compute_stream<Dev>() / create_new_sync_event<Dev>(), as the
\* call that makes object number n: the GPU runtime returns a handle that no
\* other object wraps.
create_new(hs, type, device, n) ==
  Handle(type, device,
         IF device = "GPU"
         THEN CHOOSE r \in 1..(Len(hs) + 1) : r \notin RawHandles(hs, type)
         ELSE NoRaw,
         n)

\* Variant: objects are compared by what created them.
handle_equal_by_identity(a, b) == a.context = b.context

\* operator==: the same device and, on the GPU, the same raw handle.
handle_equal(a, b) ==
  /\ a.device = b.device
  /\ a.device = "GPU" => a.raw = b.raw

\* std::hash: of the device for a CPU object, of the raw handle for a GPU
\* object.
handle_hash(a) == IF a.device = "GPU" THEN a.raw ELSE 0

\* std::unordered_map<Handle, int>: one chain of (key, value) entries per
\* bucket; a key is looked up in the bucket of its hash, by operator==.
bucket(a) == handle_hash(a) % MaxBuckets

EmptyMap == [b \in 0..(MaxBuckets - 1) |-> <<>>]

map_positions(map, k) ==
  {i \in DOMAIN map[bucket(k)] :
     /\ handle_hash(map[bucket(k)][i].key) = handle_hash(k)
     /\ handle_equal(map[bucket(k)][i].key, k)}

\* map.count(k)
map_count(map, k) == Cardinality(map_positions(map, k))

\* map.at(k), for a key that is present.
map_at(map, k) ==
  map[bucket(k)][CHOOSE i \in map_positions(map, k) : TRUE].value

\* map[k] = v
map_assign(map, k, v) ==
  IF map_positions(map, k) # {}
  THEN [map EXCEPT ![bucket(k)][CHOOSE i \in map_positions(map, k) : TRUE].value = v]
  ELSE [map EXCEPT ![bucket(k)] = Append(@, [key |-> k, value |-> v])]

\* The state of the handles while none has been created.
HandleIdle ==
  /\ handles = <<>>
  /\ handle_map = [t \in HandleTypes |-> EmptyMap]
  /\ expected = <<>>

(***************************************************************************)
(* Tensors (h2/tensor/tensor.hpp).  A tensor has an element type, a        *)
(* device, a shape, one dimension type per dimension, strides (the first   *)
(* dimension varies fastest), a stream, and a data pointer: the name of    *)
(* a raw buffer, or Null while nothing has been allocated.                 *)
(***************************************************************************)
Null == "null"

Tensor(type, device, shape, dim_types, strides, data, stream, view) ==
  [type |-> type, device |-> device, shape |-> shape, dim_types |-> dim_types,
   strides |-> strides, data |-> data, stream |-> stream, view |-> view]

RECURSIVE product(_)
product(shape) ==
  IF shape = <<>> THEN 1 ELSE Head(shape) * product(Tail(shape))

\* Number of elements; a tensor without dimensions is empty.
numel(shape) == IF shape = <<>> THEN 0 ELSE product(shape)

is_empty(t) == numel(t.shape) = 0

\* Strides of the packed layout of shape.
contiguous_strides(shape) ==
  [i \in 1..Len(shape) |-> product(SubSeq(shape, 1, i - 1))]

is_contiguous(t) == t.strides = contiguous_strides(t.shape)

RECURSIVE inner_product(_, _)
inner_product(a, b) ==
  IF a = <<>> THEN 0 ELSE Head(a) * Head(b) + inner_product(Tail(a), Tail(b))

\* Number of elements between the first and the last element of the layout,
\* both included.
get_extent_from_strides(shape, strides) ==
  IF shape = <<>> THEN 0
  ELSE 1 + inner_product([i \in 1..Len(shape) |-> shape[i] - 1], strides)

\* t.empty(): no dimensions, no data.
empty(t) ==
  [t EXCEPT !.shape = <<>>, !.dim_types = <<>>, !.strides = <<>>, !.data = Null]

\* t.resize(shape, dim_types, strides): a changed layout drops the buffer.
resize(t, shape, dim_types, strides) ==
  [t EXCEPT !.shape = shape, !.dim_types = dim_types, !.strides = strides,
            !.data = IF shape = t.shape /\ strides = t.strides THEN t.data
                     ELSE Null]

\* t.ensure(): a non-empty tensor without a buffer gets the buffer that the
\* allocator hands out.
ensure(t, fresh) ==
  IF t.data = Null /\ ~is_empty(t) THEN [t EXCEPT !.data = fresh] ELSE t

\* t.view(): a tensor that shares the buffer of t and does not own it.
view(t) == [t EXCEPT !.view = TRUE]

set_stream(t, stream) == [t EXCEPT !.stream = stream]

\* The result of a tensor operation: the exception raised, the steps made
\* in order, the copy_buffer calls made, the tensor written, and the state
\* of the buffers and of the GPU streams.
TensorEffect(raised, trace, calls, dst, m, q) ==
  [raised |-> raised, trace |-> trace, calls |-> calls, dst |-> dst,
   mem |-> m, queue |-> q]

\* The arguments of one copy_buffer call.
CopyCall(dst, dst_stream, src, src_stream, count) ==
  [dst |-> dst, dst_stream |-> dst_stream, src |-> src,
   src_stream |-> src_stream, count |-> count]

(***************************************************************************)
(* Copying tensors (h2/tensor/copy.hpp).  fresh names the buffer that an    *)
(* allocation made for dst returns.                                         *)
(***************************************************************************)
\* Variant: the transfer always moves numel elements.
copy_same_type_numel_only(gpu, m, q, dst, src, fresh) ==
  LET resized == resize(dst, src.shape, src.dim_types, src.strides)
      ensured == ensure(resized, fresh)
      count == numel(src.shape)
      eff == copy_buffer(gpu, m, q, ensured.data, ensured.stream,
                         src.data, src.stream, count)
  IN TensorEffect(eff.raised, <<"resize", "ensure", "copy_buffer">>,
                  <<CopyCall(ensured.data, ensured.stream, src.data,
                             src.stream, count)>>,
                  ensured, eff.mem, eff.queue)

\* Variant: the extent of a strided source stops at its last element.
copy_same_type_extent_short(gpu, m, q, dst, src, fresh) ==
  LET resized == resize(dst, src.shape, src.dim_types, src.strides)
      ensured == ensure(resized, fresh)
      count == IF is_contiguous(src) THEN numel(src.shape)
               ELSE get_extent_from_strides(src.shape, src.strides) - 1
      eff == copy_buffer(gpu, m, q, ensured.data, ensured.stream,
                         src.data, src.stream, count)
  IN TensorEffect(eff.raised, <<"resize", "ensure", "copy_buffer">>,
                  <<CopyCall(ensured.data, ensured.stream, src.data,
                             src.stream, count)>>,
                  ensured, eff.mem, eff.queue)

\* internal::copy_same_type(Tensor<T>& dst, const Tensor<T>& src)
copy_same_type(gpu, m, q, dst, src, fresh) ==
  LET resized == resize(dst, src.shape, src.dim_types, src.strides)
      ensured == ensure(resized, fresh)
      count == IF is_contiguous(src) THEN numel(src.shape)
               ELSE get_extent_from_strides(src.shape, src.strides)
      eff == copy_buffer(gpu, m, q, ensured.data, ensured.stream,
                         src.data, src.stream, count)
  IN TensorEffect(eff.raised, <<"resize", "ensure", "copy_buffer">>,
                  <<CopyCall(ensured.data, ensured.stream, src.data,
                             src.stream, count)>>,
                  ensured, eff.mem, eff.queue)

\* Variant: an empty source leaves dst as it is.
copy_keep_dst_on_empty(gpu, m, q, dst, src, fresh) ==
  IF is_empty(src)
  THEN TensorEffect("none", <<>>, <<>>, dst, m, q)
  ELSE IF src.data = Null
  THEN TensorEffect("Cannot copy a non-empty tensor with no data",
                    <<>>, <<>>, dst, m, q)
  ELSE IF src.type = dst.type
  THEN copy_same_type(gpu, m, q, dst, src, fresh)
  ELSE TensorEffect("Data type conversion in Copy not currently supported",
                    <<>>, <<>>, dst, m, q)

\* Variant: differing element types are copied as if they were the same.
copy_reinterpret(gpu, m, q, dst, src, fresh) ==
  IF is_empty(src)
  THEN TensorEffect("none", <<"empty">>, <<>>, empty(dst), m, q)
  ELSE IF src.data = Null
  THEN TensorEffect("Cannot copy a non-empty tensor with no data",
                    <<>>, <<>>, dst, m, q)
  ELSE copy_same_type(gpu, m, q, dst, src, fresh)

\* Variant: the data pointer of src is checked before its emptiness.
copy_checks_data_first(gpu, m, q, dst, src, fresh) ==
  IF src.data = Null
  THEN TensorEffect("Cannot copy a non-empty tensor with no data",
                    <<>>, <<>>, dst, m, q)
  ELSE IF is_empty(src)
  THEN TensorEffect("none", <<"empty">>, <<>>, empty(dst), m, q)
  ELSE IF src.type = dst.type
  THEN copy_same_type(gpu, m, q, dst, src, fresh)
  ELSE TensorEffect("Data type conversion in Copy not currently supported",
                    <<>>, <<>>, dst, m, q)

\* copy(Tensor<DstT>& dst, const Tensor<SrcT>& src)
copy(gpu, m, q, dst, src, fresh) ==
  IF is_empty(src)
  THEN TensorEffect("none", <<"empty">>, <<>>, empty(dst), m, q)
  ELSE IF src.data = Null
  THEN TensorEffect("Cannot copy a non-empty tensor with no data",
                    <<>>, <<>>, dst, m, q)
  ELSE IF src.type = dst.type
  THEN copy_same_type(gpu, m, q, dst, src, fresh)
  ELSE TensorEffect("Data type conversion in Copy not currently supported",
                    <<>>, <<>>, dst, m, q)

(***************************************************************************)
(* Buffers and their holders (h2/tensor/tensor.hpp, strided_memory.hpp,    *)
(* raw_buffer.hpp).  A tensor and the views made of it share one raw       *)
(* allocation, which counts the holders it has; the matrix that as_h_mat   *)
(* returns points to the allocation without being counted (a weak view).   *)
(***************************************************************************)
Holder(kind, buf, root, alive) ==
  [kind |-> kind, buf |-> buf, root |-> root, alive |-> alive]

\* A new allocation with its first holder.
allocate(hp, value) ==
  Append(hp, [refs |-> 1, freed |-> FALSE, value |-> value])

\* One more holder of allocation b.
retain(hp, b) == [hp EXCEPT ![b].refs = @ + 1]

\* One holder less of allocation b: the last one frees it.
release(hp, b) ==
  [hp EXCEPT ![b].refs = @ - 1, ![b].freed = (hp[b].refs = 1)]

\* Tensor::view(): the view holds the allocation of the tensor.
view_buffer(hp, b) == [heap |-> retain(hp, b), buf |-> b]

\* Variant: the matrix is counted as a holder.
weak_view_buffer_counted(hp, b) == [heap |-> retain(hp, b), buf |-> b]

\* as_h_mat(tensor): the matrix gets tensor.data() and holds nothing.
weak_view_buffer(hp, b) == [heap |-> hp, buf |-> b]

\* What a read through holder h returns.
read(hs, hp, h) == hp[hs[h].buf].value

\* The state of the buffers while no tensor has been constructed.
BufferIdle ==
  /\ holders = <<>>
  /\ heap = <<>>
  /\ written = <<>>

(***************************************************************************)
(* Distributed tensors (h2/tensor/dist_tensor.hpp, proc_grid.hpp).  Every   *)
(* process holds its own DistTensor object: the global shape, dimension    *)
(* types and distribution, the processor grid, the rank of the process in  *)
(* the grid, and the local tensor with the share of the process.           *)
(***************************************************************************)
ProcGrid(comm, shape) == [comm |-> comm, shape |-> shape]

\* Same processes in the same arrangement; the communicators may differ.
is_congruent_to(grid, other) == grid.shape = other.shape

DistTensor(type, shape, dim_types, distribution, proc_grid, rank, local) ==
  [type |-> type, shape |-> shape, dim_types |-> dim_types,
   distribution |-> distribution, proc_grid |-> proc_grid, rank |-> rank,
   local |-> local]

\* Extent of the share that the process at coordinate c of procs processes
\* holds of a dimension of n elements.
get_local_extent(n, dist, procs, c) ==
  LET block == (n + procs - 1) \div procs
      rest == n - c * block
  IN CASE dist = "Block" -> IF rest <= 0 THEN 0
                            ELSE IF rest < block THEN rest ELSE block
       [] dist = "Single" -> IF c = 0 THEN n ELSE 0
       [] OTHER -> n

\* Shape of the local tensor: a share without elements has no dimensions.
get_local_shape(shape, distribution, grid, rank) ==
  LET c == rank % grid.shape[1]
      local == [i \in 1..Len(shape) |->
                  IF i = 1
                  THEN get_local_extent(shape[i], distribution[i], grid.shape[1], c)
                  ELSE shape[i]]
  IN IF \E i \in 1..Len(local) : local[i] = 0 THEN <<>> ELSE local

is_local_empty(d) == is_empty(d.local)

\* d.empty()
dist_empty(d) ==
  [d EXCEPT !.shape = <<>>, !.dim_types = <<>>, !.distribution = <<>>,
            !.local = empty(@)]

\* d.resize(shape, dim_types, distribution): the local tensor gets the
\* packed layout of the share of this process.
dist_resize(d, shape, dim_types, distribution) ==
  LET local_shape == get_local_shape(shape, distribution, d.proc_grid, d.rank)
  IN [d EXCEPT !.shape = shape, !.dim_types = dim_types,
               !.distribution = distribution,
               !.local = resize(@, local_shape,
                                IF local_shape = <<>> THEN <<>> ELSE dim_types,
                                contiguous_strides(local_shape))]

\* d.ensure()
dist_ensure(d, fresh) == [d EXCEPT !.local = ensure(@, fresh)]

\* Variant: non-contiguous local data is copied as far as numel reaches.
dist_copy_same_type_partial(gpu, m, q, dst, src, fresh) ==
  LET resized == dist_resize(dst, src.shape, src.dim_types, src.distribution)
      ensured == dist_ensure(resized, fresh)
      dst_local == ensured.local
      src_local == src.local
  IN IF is_local_empty(src)
     THEN TensorEffect("none", <<"resize", "ensure">>, <<>>, ensured, m, q)
     ELSE LET eff == copy_buffer(gpu, m, q, dst_local.data, dst_local.stream,
                                 src_local.data, src_local.stream,
                                 numel(src_local.shape))
          IN TensorEffect(eff.raised, <<"resize", "ensure", "copy_buffer">>,
                          <<CopyCall(dst_local.data, dst_local.stream,
                                     src_local.data, src_local.stream,
                                     numel(src_local.shape))>>,
                          ensured, eff.mem, eff.queue)

\* Variant: every process copies, whether its share is empty or not.
dist_copy_same_type_always(gpu, m, q, dst, src, fresh) ==
  LET resized == dist_resize(dst, src.shape, src.dim_types, src.distribution)
      ensured == dist_ensure(resized, fresh)
      dst_local == ensured.local
      src_local == src.local
      eff == copy_buffer(gpu, m, q, dst_local.data, dst_local.stream,
                         src_local.data, src_local.stream,
                         numel(src_local.shape))
  IN TensorEffect(eff.raised, <<"resize", "ensure", "copy_buffer">>,
                  <<CopyCall(dst_local.data, dst_local.stream,
                             src_local.data, src_local.stream,
                             numel(src_local.shape))>>,
                  ensured, eff.mem, eff.queue)

\* Variant: the contiguity of the local data is checked before dst is
\* resized.
dist_copy_same_type_checks_first(gpu, m, q, dst, src, fresh) ==
  LET resized == dist_resize(dst, src.shape, src.dim_types, src.distribution)
      ensured == dist_ensure(resized, fresh)
      dst_local == ensured.local
      src_local == src.local
  IN IF ~is_local_empty(src) /\ ~is_contiguous(src_local)
     THEN TensorEffect("Copying distributed tensors with non-contiguous local data is not supported",
                       <<>>, <<>>, dst, m, q)
     ELSE IF is_local_empty(src)
     THEN TensorEffect("none", <<"resize", "ensure">>, <<>>, ensured, m, q)
     ELSE LET eff == copy_buffer(gpu, m, q, dst_local.data, dst_local.stream,
                                 src_local.data, src_local.stream,
                                 numel(src_local.shape))
          IN TensorEffect(eff.raised, <<"resize", "ensure", "copy_buffer">>,
                          <<CopyCall(dst_local.data, dst_local.stream,
                                     src_local.data, src_local.stream,
                                     numel(src_local.shape))>>,
                          ensured, eff.mem, eff.queue)

\* internal::copy_same_type(DistTensor<T>& dst, const DistTensor<T>& src)
dist_copy_same_type(gpu, m, q, dst, src, fresh) ==
  LET resized == dist_resize(dst, src.shape, src.dim_types, src.distribution)
      ensured == dist_ensure(resized, fresh)
      dst_local == ensured.local
      src_local == src.local
  IN IF is_local_empty(src)
     THEN TensorEffect("none", <<"resize", "ensure">>, <<>>, ensured, m, q)
     ELSE IF is_contiguous(src_local)
     THEN LET eff == copy_buffer(gpu, m, q, dst_local.data, dst_local.stream,
                                 src_local.data, src_local.stream,
                                 numel(src_local.shape))
          IN TensorEffect(eff.raised, <<"resize", "ensure", "copy_buffer">>,
                          <<CopyCall(dst_local.data, dst_local.stream,
                                     src_local.data, src_local.stream,
                                     numel(src_local.shape))>>,
                          ensured, eff.mem, eff.queue)
     ELSE TensorEffect("Copying distributed tensors with non-contiguous local data is not supported",
                       <<"resize", "ensure">>, <<>>, ensured, m, q)

\* Variant: the grids are never compared.
dist_copy_unchecked(debug, gpu, m, q, dst, src, fresh) ==
  IF is_empty(src)
  THEN TensorEffect("none", <<"empty">>, <<>>, dist_empty(dst), m, q)
  ELSE IF ~(is_local_empty(src) \/ src.local.data # Null)
  THEN TensorEffect("Cannot copy a non-empty distributed tensor with no data",
                    <<>>, <<>>, dst, m, q)
  ELSE IF src.type = dst.type
  THEN dist_copy_same_type(gpu, m, q, dst, src, fresh)
  ELSE TensorEffect("Data type conversion is copy is not currently supported",
                    <<>>, <<>>, dst, m, q)

\* Variant: dst takes the processor grid of src along with its shape.
dist_copy_takes_src_grid(debug, gpu, m, q, dst, src, fresh) ==
  LET eff == dist_copy_unchecked(debug, gpu, m, q, dst, src, fresh)
  IN IF debug /\ ~is_congruent_to(src.proc_grid, dst.proc_grid)
     THEN TensorEffect("Cannot copy between DistTensors on non-congruent processor grids",
                       <<>>, <<>>, dst, m, q)
     ELSE [eff EXCEPT !.dst.proc_grid = src.proc_grid]

\* copy(DistTensor<DstT>& dst, const DistTensor<SrcT>& src); debug tells
\* whether H2_ASSERT_DEBUG is compiled in.
dist_copy(debug, gpu, m, q, dst, src, fresh) ==
  IF debug /\ ~is_congruent_to(src.proc_grid, dst.proc_grid)
  THEN TensorEffect("Cannot copy between DistTensors on non-congruent processor grids",
                    <<>>, <<>>, dst, m, q)
  ELSE IF is_empty(src)
  THEN TensorEffect("none", <<"empty">>, <<>>, dist_empty(dst), m, q)
  ELSE IF ~(is_local_empty(src) \/ src.local.data # Null)
  THEN TensorEffect("Cannot copy a non-empty distributed tensor with no data",
                    <<>>, <<>>, dst, m, q)
  ELSE IF src.type = dst.type
  THEN dist_copy_same_type(gpu, m, q, dst, src, fresh)
  ELSE TensorEffect("Data type conversion is copy is not currently supported",
                    <<>>, <<>>, dst, m, q)

(***************************************************************************)
(* make_accessible_on_device (h2/tensor/copy.hpp).                         *)
(***************************************************************************)
\* std::nullopt for the optional stream argument.
NoStream == [device |-> "none", id |-> 0]

\* ComputeStream{dev}: the default stream of the device.
DefaultStream(dev) == ComputeStream(dev, IF dev = "GPU" THEN 1 ELSE 0)

\* std::make_unique<Tensor<T>>(dev, shape, dim_types, StrictAlloc, stream)
\* followed by copy(*dst, src).
copy_to_new_tensor(gpu, m, q, src, dev, real_stream, fresh) ==
  LET dst == Tensor(src.type, dev, src.shape, src.dim_types,
                    contiguous_strides(src.shape),
                    IF is_empty(src) THEN Null ELSE fresh, real_stream, FALSE)
      eff == copy(gpu, m, q, dst, src, fresh)
  IN [eff EXCEPT !.trace = <<"allocate">> \o @]

\* Variant: a tensor that is already on the device is copied as well.
make_accessible_on_device_by_copy(gpu, integrated, m, q, src, dev, stream, fresh) ==
  LET real_stream == IF stream # NoStream THEN stream ELSE DefaultStream(dev)
  IN IF gpu
     THEN IF integrated /\ src.device # dev
          THEN TensorEffect("none", <<"view">>, <<>>,
                            [view(src) EXCEPT !.device = dev, !.stream = real_stream],
                            m, q)
          ELSE copy_to_new_tensor(gpu, m, q, src, dev, real_stream, fresh)
     ELSE TensorEffect("Unknown device", <<>>, <<>>, src, m, q)

\* Variant: a tensor on another device is always copied.
make_accessible_on_device_never_shared(gpu, integrated, m, q, src, dev, stream, fresh) ==
  IF src.device = dev
  THEN TensorEffect("none",
                    IF stream # NoStream THEN <<"view", "set_stream">> ELSE <<"view">>,
                    <<>>,
                    IF stream # NoStream THEN set_stream(view(src), stream)
                    ELSE view(src),
                    m, q)
  ELSE LET real_stream == IF stream # NoStream THEN stream ELSE DefaultStream(dev)
       IN IF gpu
          THEN copy_to_new_tensor(gpu, m, q, src, dev, real_stream, fresh)
          ELSE TensorEffect("Unknown device", <<>>, <<>>, src, m, q)

\* make_accessible_on_device(src, dev, stream); gpu tells whether H2_HAS_GPU
\* is defined, integrated what gpu::is_integrated() returns.
make_accessible_on_device(gpu, integrated, m, q, src, dev, stream, fresh) ==
  IF src.device = dev
  THEN TensorEffect("none",
                    IF stream # NoStream THEN <<"view", "set_stream">> ELSE <<"view">>,
                    <<>>,
                    IF stream # NoStream THEN set_stream(view(src), stream)
                    ELSE view(src),
                    m, q)
  ELSE LET real_stream == IF stream # NoStream THEN stream ELSE DefaultStream(dev)
       IN IF gpu
          THEN IF integrated
               THEN TensorEffect("none", <<"view">>, <<>>,
                                 [view(src) EXCEPT !.device = dev,
                                                   !.stream = real_stream],
                                 m, q)
               ELSE copy_to_new_tensor(gpu, m, q, src, dev, real_stream, fresh)
          ELSE TensorEffect("Unknown device", <<>>, <<>>, src, m, q)

(***************************************************************************)
(* The tensors of the model.                                                *)
(***************************************************************************)
\* The processes that hold distributed tensors.
Procs == {1, 2}

\* Who makes a call: 0 stands for the (non-distributed) tensor calls.
Callers == {0} \cup Procs

\* The raw buffers behind the tensors: of src, of dst, of the tensor that
\* make_accessible_on_device returns, and of the local tensors of each
\* process.
LocalBuffer(p, name) ==
  CASE p = 1 /\ name = "src" -> "p1.src"
    [] p = 1 /\ name = "dst" -> "p1.dst"
    [] p = 2 /\ name = "src" -> "p2.src"
    [] OTHER -> "p2.dst"

SourceBuffers == {"src", "p1.src", "p2.src"}

TensorBuffers == SourceBuffers \cup {"dst", "acc", "p1.dst", "p2.dst"}

\* Source buffers hold distinct known values, the others hold zeros.
TensorMem ==
  [b \in TensorBuffers |->
     [i \in 1..MaxExtent |-> IF b \in SourceBuffers THEN i ELSE 0]]

NoTensor == Tensor("none", "CPU", <<>>, <<>>, <<>>, Null, NoStream, FALSE)

\* "No call has been made yet".
NoCall ==
  [op |-> "none", raised |-> "none", trace |-> <<>>, calls |-> <<>>,
   dev |-> "none", stream |-> NoStream]

\* The state of the tensor layer while no tensor has been constructed.
TensorIdle ==
  /\ h2_debug = FALSE
  /\ is_integrated = FALSE
  /\ tensors = <<>>
  /\ dtensors = <<>>
  /\ priors = <<>>
  /\ lastCall = [c \in Callers |-> NoCall]

(***************************************************************************)
(* Views of tensors as Hydrogen matrices and back                          *)
(* (h2/tensor/hydrogen_interop.hpp).  A matrix has a height, a width, a     *)
(* leading dimension and the buffer it points to.                          *)
(***************************************************************************)
Matrix(height, width, buf, ldim) ==
  [height |-> height, width |-> width, buf |-> buf, ldim |-> ldim]

NoMatrix == Matrix(0, 0, Null, 1)

\* init(shape): all but the last; shape.back(): the last.
init(tuple) == SubSeq(tuple, 1, Len(tuple) - 1)

back(tuple) == tuple[Len(tuple)]

\* The dimensions but the slowest one are packed.
is_chw_packed(t) ==
  \A i \in 1..(Len(t.shape) - 1) :
    t.strides[i] = product(SubSeq(t.shape, 1, i - 1))

\* The result of a conversion: the exception raised, or the matrix or the
\* tensor returned.
Conversion(op, raised, matrix, tensor) ==
  [op |-> op, raised |-> raised, matrix |-> matrix, tensor |-> tensor]

\* Variant: a vector is a column vector whatever its stride.
as_h_mat_impl_column_only(buf, tensor) ==
  IF is_empty(tensor)
  THEN Conversion("as_h_mat", "Cannot convert empty tensor to El::Matrix",
                  NoMatrix, NoTensor)
  ELSE IF Len(tensor.shape) > 1 /\ ~is_chw_packed(tensor)
  THEN Conversion("as_h_mat",
                  "No-copy conversion only supported for fully-packed or chw-packed tensors",
                  NoMatrix, NoTensor)
  ELSE IF Len(tensor.shape) = 1
  THEN Conversion("as_h_mat", "none",
                  Matrix(numel(tensor.shape), 1, buf, numel(tensor.shape)),
                  NoTensor)
  ELSE Conversion("as_h_mat", "none",
                  Matrix(product(init(tensor.shape)), back(tensor.shape), buf,
                         back(tensor.strides)),
                  NoTensor)

\* internal::as_h_mat_impl<D>(buf, tensor)
as_h_mat_impl(buf, tensor) ==
  IF is_empty(tensor)
  THEN Conversion("as_h_mat", "Cannot convert empty tensor to El::Matrix",
                  NoMatrix, NoTensor)
  ELSE IF Len(tensor.shape) > 1 /\ ~is_chw_packed(tensor)
  THEN Conversion("as_h_mat",
                  "No-copy conversion only supported for fully-packed or chw-packed tensors",
                  NoMatrix, NoTensor)
  ELSE IF Len(tensor.shape) = 1
  THEN LET nelems == numel(tensor.shape)
           elem_stride == tensor.strides[1]
       IN IF elem_stride = 1
          THEN Conversion("as_h_mat", "none",
                          Matrix(nelems, 1, buf, nelems), NoTensor)
          ELSE Conversion("as_h_mat", "none",
                          Matrix(1, nelems, buf, elem_stride), NoTensor)
  ELSE LET width == back(tensor.shape)
           height == product(init(tensor.shape))
           ldim == back(tensor.strides)
       IN Conversion("as_h_mat", "none",
                     Matrix(height, width, buf, ldim), NoTensor)

\* as_h_mat<D>(tensor)
as_h_mat(tensor) == as_h_mat_impl(tensor.data, tensor)

\* matrix.IsEmpty()
IsEmpty(matrix) == matrix.height = 0 \/ matrix.width = 0

\* internal::as_h2_tensor_impl(buf, matrix)
as_h2_tensor_impl(buf, matrix) ==
  IF IsEmpty(matrix)
  THEN Conversion("as_h2_tensor", "Cannot convert empty matrix to Tensor",
                  NoMatrix, NoTensor)
  ELSE LET m == matrix.height
           n == matrix.width
           ldim == matrix.ldim
       IN IF n = 1
          THEN Conversion("as_h2_tensor", "none", NoMatrix,
                          Tensor("float", "CPU", <<m>>, <<"Any">>, <<1>>, buf,
                                 ComputeStream("CPU", 0), TRUE))
          ELSE IF m = 1
          THEN Conversion("as_h2_tensor", "none", NoMatrix,
                          Tensor("float", "CPU", <<n>>, <<"Any">>, <<ldim>>,
                                 buf, ComputeStream("CPU", 0), TRUE))
          ELSE Conversion("as_h2_tensor", "none", NoMatrix,
                          Tensor("float", "CPU", <<m, n>>, <<"Any", "Any">>,
                                 <<1, ldim>>, buf, ComputeStream("CPU", 0),
                                 TRUE))

\* as_h2_tensor(matrix)
as_h2_tensor(matrix) == as_h2_tensor_impl(matrix.buf, matrix)

\* The state of the conversions while nothing has been converted.
InteropIdle ==
  /\ h2_tensor = NoTensor
  /\ h_matrix = NoMatrix
  /\ converted = Conversion("none", "none", NoMatrix, NoTensor)

(***************************************************************************)
(* Iteration over the indices of a shape (h2/tensor/tensor_utils.hpp).     *)
(* Positions of tuples are counted from one: dimension dim of the code is  *)
(* position dim + 1.                                                       *)
(***************************************************************************)
\* prefix_product(shape): for every dimension the product of the extents
\* before it.
prefix_product(shape) ==
  [i \in 1..Len(shape) |-> product(SubSeq(shape, 1, i - 1))]

\* is_index_in_shape(idx, shape)
is_index_in_shape(idx, shape) ==
  \A dim \in 1..Len(idx) : idx[dim] < shape[dim]

\* The loop "for dim < size - 1: if (coord[dim] == shape[dim]) carry", from
\* dimension dim on.
RECURSIVE carry_loop(_, _, _)
carry_loop(coord, shape, dim) ==
  IF dim > Len(coord) - 1 THEN coord
  ELSE IF coord[dim] = shape[dim]
  THEN carry_loop([coord EXCEPT ![dim] = 0, ![dim + 1] = @ + 1], shape, dim + 1)
  ELSE carry_loop(coord, shape, dim + 1)

\* coord[0] += 1, followed by the carry loop.
increment(coord, shape) ==
  carry_loop([coord EXCEPT ![1] = @ + 1], shape, 1)

\* next_scalar_index(idx, shape)
next_scalar_index(idx, shape) ==
  LET next_idx == increment(idx, shape)
  IN IF next_idx[Len(next_idx)] = shape[Len(shape)] THEN shape ELSE next_idx

\* The loop "for (i = start_index; i < ub; ++i) { f(coord); ... }"; calls
\* collects the arguments of f.
RECURSIVE for_ndim_loop(_, _, _, _, _)
for_ndim_loop(shape, coord, i, ub, calls) ==
  IF i < ub
  THEN for_ndim_loop(shape, increment(coord, shape), i + 1, ub,
                     Append(calls, coord))
  ELSE calls

\* Variant: the loop counts from zero whatever the start index.
for_ndim_counts_from_zero(shape, start) ==
  IF shape = <<>> THEN <<>>
  ELSE LET coord == IF start = <<>> THEN [dim \in 1..Len(shape) |-> 0] ELSE start
       IN for_ndim_loop(shape, coord, 0, product(shape), <<>>)

\* for_ndim(shape, f, start); the empty tuple stands for a start index that
\* is not given.
for_ndim(shape, start) ==
  IF shape = <<>> THEN <<>>
  ELSE LET coord == IF start = <<>> THEN [dim \in 1..Len(shape) |-> 0] ELSE start
           ub == product(shape)
           start_index == IF start = <<>> THEN 0
                          ELSE inner_product(coord, prefix_product(shape))
       IN for_ndim_loop(shape, coord, start_index, ub, <<>>)

\* The state of the iteration while there is no region to iterate over.
NdIdle ==
  /\ region = [shape |-> <<>>, start |-> <<>>, called |-> FALSE]
  /\ f_calls = <<>>
  /\ walk = <<>>

(***************************************************************************)
(* Runtime type information (h2/core/types.hpp): a TypeInfo carries its    *)
(* token and whether the type is a compute type.  Native H2 compute types  *)
(* are the compute types with the dense tokens 0 .. NumComputeTypes-1.     *)
(***************************************************************************)
TypeInfo(token, compute) == [token |-> token, compute |-> compute]

is_compute_type(tinfo) == tinfo.compute

is_h2_compute_type(tinfo) == tinfo.compute /\ tinfo.token \in NativeTokens

get_type_token(x) == x.token

\* Fold expressions over the argument pack, given as a sequence.
all_h2_compute_types(args) == \A i \in 1..Len(args) : is_h2_compute_type(args[i])

all_compute_types(args) == \A i \in 1..Len(args) : is_compute_type(args[i])

\* contains_nonnative_compute_type(args...); debug tells whether the build
\* defines H2_DEBUG.  The result is the exception raised and the value
\* returned.
contains_nonnative_compute_type(debug, args) ==
  IF debug /\ ~all_compute_types(args)
  THEN [raised |-> "Cannot check for non-native compute types when non-compute types are present",
        value |-> FALSE]
  ELSE [raised |-> "none",
        value |-> \A i \in 1..Len(args) :
                    is_compute_type(args[i]) /\ ~is_h2_compute_type(args[i])]

(***************************************************************************)
(* The dispatch registry (declared in dispatch.hpp, defined in             *)
(* dispatch.cpp): a set of (name, key, entry) records.                     *)
(***************************************************************************)
NotFound == [ok |-> FALSE, entry |-> [func_ptr |-> <<"none", 0>>, caller |-> "none"]]

EntriesOf(reg, name, key) == {e \in reg : e.name = name /\ e.key = key}

\* Insert or overwrite the entry for (name, key).
add_dispatch_entry(reg, name, key, entry) ==
  (reg \ EntriesOf(reg, name, key))
    \cup {[name |-> name, key |-> key, entry |-> entry]}

has_dispatch_entry(reg, name, key) == EntriesOf(reg, name, key) # {}

\* The entry for (name, key); NotFound stands for the exception thrown when
\* there is none.
get_dispatch_entry(reg, name, key) ==
  IF has_dispatch_entry(reg, name, key)
  THEN [ok |-> TRUE, entry |-> (CHOOSE e \in EntriesOf(reg, name, key) : TRUE).entry]
  ELSE NotFound

\* Variant: erasing a missing entry is an error (as std::map::at would be).
dispatch_unregister_strict(reg, name, key) ==
  IF has_dispatch_entry(reg, name, key)
  THEN [raised |-> "none", reg |-> reg \ EntriesOf(reg, name, key)]
  ELSE [raised |-> "not_found", reg |-> reg]

\* Erase the entry for (name, key), if any.
dispatch_unregister(reg, name, key) ==
  [raised |-> "none", reg |-> reg \ EntriesOf(reg, name, key)]

\* Variant: an existing entry is kept (emplace instead of assignment).
dispatch_register_keep_existing(reg, name, key, func) ==
  IF has_dispatch_entry(reg, name, key) THEN reg
  ELSE add_dispatch_entry(reg, name, key,
         [func_ptr |-> func, caller |-> "DispatchFunctionWrapper::call"])

\* Variant: the new entry is added next to an existing one.
dispatch_register_append(reg, name, key, func) ==
  reg \cup {[name |-> name, key |-> key,
             entry |-> [func_ptr |-> func,
                        caller |-> "DispatchFunctionWrapper::call"]]}

\* Wrap func into an entry with its trampoline and add it to the table.
dispatch_register(reg, name, key, func) ==
  add_dispatch_entry(reg, name, key,
    [func_ptr |-> func, caller |-> "DispatchFunctionWrapper::call"])

(***************************************************************************)
(* Dispatching.  The outcome of a call is the exception it raised (or      *)
(* "none"), the keys it built, the registry lookups it made and the calls  *)
(* it made through a trampoline, each in program order.                    *)
(***************************************************************************)
Outcome(raised, keys, lookups, calls) ==
  [raised |-> raised, keys |-> keys, lookups |-> lookups, calls |-> calls]

\* func.caller(func.func_ptr, {&args...}): one call of the function.
dispatch_call(entry, args) == <<[func_ptr |-> entry.func_ptr, args |-> args]>>

\* get_dispatch_entry, then dispatch_call on the entry found.
call_dispatch_entry(reg, name, key, args) ==
  LET found == get_dispatch_entry(reg, name, key)
  IN IF found.ok
     THEN Outcome("none", <<>>, <<<<name, key>>>>, dispatch_call(found.entry, args))
     ELSE Outcome("not_found", <<>>, <<<<name, key>>>>, <<>>)

\* Variant: the constructor does not reject non-compute types.
DispatchOn_unchecked(args) ==
  [ok |-> TRUE,
   tokens |-> [i \in 1..Len(args) |-> get_type_token(args[i])],
   all_native |-> all_h2_compute_types(args)]

\* DispatchOn<num_types>(args...): tokens and all_native are initialised,
\* then the constructor throws H2FatalException for a non-compute type.
DispatchOn(args) ==
  [ok |-> all_compute_types(args),
   tokens |-> [i \in 1..Len(args) |-> get_type_token(args[i])],
   all_native |-> all_h2_compute_types(args)]

\* The unsigned value of a native key (used as an array index).
KeyValue(key) == Field(key, 0, 30)

\* The dense table generated for an operation on num_types types: one
\* built-in kernel per native key.
dispatch_table(num_types) ==
  [k \in 0..(NumComputeTypes^num_types - 1) |->
     [func_ptr |-> <<"h2", k>>, caller |-> "DispatchFunctionWrapper::call"]]

\* Variant: a registered entry takes precedence over the dense table.
do_dispatch_registry_first(reg, table, name, dispatch_types, args) ==
  LET dkey == get_dispatch_key(dispatch_types.tokens)
      nkey == get_native_dispatch_key(dispatch_types.tokens)
  IN IF dispatch_types.all_native /\ ~has_dispatch_entry(reg, name, dkey)
     THEN Outcome("none", <<<<"native", nkey>>>>, <<>>,
                  dispatch_call(table[KeyValue(nkey)], args))
     ELSE LET called == call_dispatch_entry(reg, name, dkey, args)
          IN Outcome(called.raised, <<<<"general", dkey>>>>,
                     called.lookups, called.calls)

\* Variant: the registry is searched with the native encoding of the tokens.
do_dispatch_native_lookup(reg, table, name, dispatch_types, args) ==
  LET nkey == get_native_dispatch_key(dispatch_types.tokens)
  IN IF dispatch_types.all_native
     THEN Outcome("none", <<<<"native", nkey>>>>, <<>>,
                  dispatch_call(table[KeyValue(nkey)], args))
     ELSE LET called == call_dispatch_entry(reg, name, nkey, args)
          IN Outcome(called.raised, <<<<"general", nkey>>>>,
                     called.lookups, called.calls)

\* do_dispatch(dispatch_table, name, dispatch_types, args...).
do_dispatch(reg, table, name, dispatch_types, args) ==
  IF dispatch_types.all_native
  THEN LET nkey == get_native_dispatch_key(dispatch_types.tokens)
       IN Outcome("none", <<<<"native", nkey>>>>, <<>>,
                  dispatch_call(table[KeyValue(nkey)], args))
  ELSE LET dkey == get_dispatch_key(dispatch_types.tokens)
           called == call_dispatch_entry(reg, name, dkey, args)
       IN Outcome(called.raised, <<<<"general", dkey>>>>,
                  called.lookups, called.calls)

\* A generated dispatch site: construct DispatchOn, then do_dispatch.
dispatch_site(reg, name, tinfos, args) ==
  LET dispatch_types == DispatchOn(tinfos)
  IN IF ~dispatch_types.ok
     THEN Outcome("fatal", <<>>, <<>>, <<>>)
     ELSE do_dispatch(reg, dispatch_table(Len(tinfos)), name, dispatch_types, args)

(***************************************************************************)
(* Inputs of the dispatch API.                                             *)
(***************************************************************************)
Names == {"op_cpu", "op_gpu"}

\* Registered functions.
Funcs == {<<"user", 1>>, <<"user", 2>>}

\* Argument packs handed to the dispatched function.
Args == {"x", "y"}

\* Two native types, one non-native compute type, one non-compute type.
DispatchTypeInfos ==
  {TypeInfo(0, TRUE), TypeInfo(NumComputeTypes - 1, TRUE),
   TypeInfo(max_token, TRUE), TypeInfo(max_token - 1, FALSE)}

\* Dense tables are instantiated for operations on one and on two types
\* (H2_INSTANTIATE_DEV_1, H2_INSTANTIATE_DEV_2).
MaxInstantiatedTypes == 2

DispatchTuples == TuplesOver(DispatchTypeInfos, 1, MaxInstantiatedTypes)

\* Keys under which functions are registered: of a non-native type, of a
\* mixed pair and of an all-native pair.
RegisteredTuples == {<<max_token>>, <<0, max_token>>, <<0, 0>>}

RegisteredKeys == {get_dispatch_key(t) : t \in RegisteredTuples}

\* prior: what get_dispatch_entry(name, key) gave just before a register or
\* unregister call.
NoOp ==
  [op |-> "none", name |-> "", key |-> NoKey, func |-> <<"none", 0>>,
   prior |-> NotFound, tinfos |-> <<>>, args |-> "",
   out |-> Outcome("none", <<>>, <<>>, <<>>), value |-> FALSE]

(***************************************************************************)
(* The dispatch API as a state machine.                                    *)
(***************************************************************************)
DispatchRegister(name, key, func) ==
  /\ \/ has_dispatch_entry(registry, name, key)
     \/ Cardinality(registry) < MaxEntries
  /\ registry' = dispatch_register(registry, name, key, func)
  /\ lastOp' = [NoOp EXCEPT !.op = "register", !.name = name, !.key = key,
                            !.func = func,
                            !.prior = get_dispatch_entry(registry, name, key)]
  /\ UNCHANGED <<keyVars, copyVars, syncVars, tensorVars, handleVars,
                 bufferVars, interopVars, ndVars>>

DispatchUnregister(name, key) ==
  LET res == dispatch_unregister(registry, name, key)
  IN /\ registry' = res.reg
     /\ lastOp' = [NoOp EXCEPT !.op = "unregister", !.name = name, !.key = key,
                               !.prior = get_dispatch_entry(registry, name, key),
                               !.out.raised = res.raised]
     /\ UNCHANGED <<keyVars, copyVars, syncVars, tensorVars, handleVars,
                 bufferVars, interopVars, ndVars>>

DoDispatch(name, tinfos, args) ==
  /\ lastOp' = [NoOp EXCEPT !.op = "do_dispatch", !.name = name,
                            !.tinfos = tinfos, !.args = args,
                            !.out = dispatch_site(registry, name, tinfos, args)]
  /\ UNCHANGED <<registry, keyVars, copyVars, syncVars, tensorVars,
                 handleVars, bufferVars, interopVars, ndVars>>

\* contains_nonnative_compute_type(args...) on arguments with the runtime
\* types tinfos.
ContainsNonnativeComputeType(debug, tinfos) ==
  LET res == contains_nonnative_compute_type(debug, tinfos)
  IN /\ lastOp' = [NoOp EXCEPT !.op = "contains_nonnative_compute_type",
                               !.tinfos = tinfos, !.out.raised = res.raised,
                               !.value = res.value]
     /\ UNCHANGED <<registry, keyVars, copyVars, syncVars, tensorVars,
                    handleVars, bufferVars, interopVars, ndVars>>

DispatchInit ==
  /\ registry = {}
  /\ lastOp = NoOp
  /\ tokens = <<>>
  /\ dispatch_key = NoKey
  /\ native_key = NoKey
  /\ has_gpu = FALSE
  /\ mem = [b \in Buffers |-> <<>>]
  /\ queue = [s \in GPUStreamIds |-> <<>>]
  /\ copies = 0
  /\ lastCopy = NoCopy
  /\ SyncInit
  /\ NdIdle
  /\ InteropIdle
  /\ BufferIdle
  /\ HandleIdle
  /\ TensorIdle

DispatchNext ==
  \/ \E name \in Names, key \in RegisteredKeys, func \in Funcs :
       DispatchRegister(name, key, func)
  \/ \E name \in Names, key \in RegisteredKeys : DispatchUnregister(name, key)
  \/ \E name \in Names, tinfos \in DispatchTuples, args \in Args :
       DoDispatch(name, tinfos, args)
  \/ \E debug \in BOOLEAN,
        tinfos \in TuplesOver(DispatchTypeInfos, 0, MaxInstantiatedTypes) :
       ContainsNonnativeComputeType(debug, tinfos)

SpecDispatch == DispatchInit /\ [][DispatchNext]_vars

(***************************************************************************)
(* Properties of the registry and of dispatching.                          *)
(***************************************************************************)
\* C1: a register of (name, key, f) makes get_dispatch_entry(name, key)
\* return f and has_dispatch_entry true; an unregister of (name, key) makes
\* get_dispatch_entry fail with not-found and has_dispatch_entry false; and
\* no call changes what the lookup of any other (name, key) pair gives, so
\* both hold whatever is registered or unregistered in between.
C1_RegisterLookupUnregister ==
  [][/\ lastOp'.op = "register" =>
          /\ has_dispatch_entry(registry', lastOp'.name, lastOp'.key)
          /\ get_dispatch_entry(registry', lastOp'.name, lastOp'.key).ok
          /\ get_dispatch_entry(registry', lastOp'.name, lastOp'.key).entry.func_ptr
               = lastOp'.func
     /\ lastOp'.op = "unregister" =>
          /\ ~has_dispatch_entry(registry', lastOp'.name, lastOp'.key)
          /\ get_dispatch_entry(registry', lastOp'.name, lastOp'.key) = NotFound
     /\ \A n \in Names, k \in RegisteredKeys :
          (lastOp'.op = "do_dispatch" \/ <<n, k>> # <<lastOp'.name, lastOp'.key>>)
            => get_dispatch_entry(registry', n, k) = get_dispatch_entry(registry, n, k)
    ]_vars

\* An entry that had been registered has just been unregistered while an
\* entry of another pair is still in the table.
C1_Witness ==
  /\ lastOp.op = "unregister"
  /\ lastOp.prior.ok
  /\ registry # {}

\* C2: registering g under a pair that already holds f raises no error and
\* replaces the entry: the lookup gives g and the table holds exactly one
\* entry for the pair.
C2_RegisterOverwrites ==
  (lastOp.op = "register" /\ lastOp.prior.ok) =>
    /\ lastOp.out.raised = "none"
    /\ Cardinality(EntriesOf(registry, lastOp.name, lastOp.key)) = 1
    /\ get_dispatch_entry(registry, lastOp.name, lastOp.key).ok
    /\ get_dispatch_entry(registry, lastOp.name, lastOp.key).entry.func_ptr
         = lastOp.func

\* A function has just been registered under a pair that held another one.
C2_Witness ==
  /\ lastOp.op = "register"
  /\ lastOp.prior.ok
  /\ lastOp.prior.entry.func_ptr # lastOp.func

\* C3: dispatch_unregister of a pair that has no entry raises no error and
\* leaves the registry as it was.
C3_UnregisterMissingIsNoOp ==
  [][(lastOp'.op = "unregister"
        /\ ~has_dispatch_entry(registry, lastOp'.name, lastOp'.key))
       => (registry' = registry /\ lastOp'.out.raised = "none")]_vars

\* A pair without entry has just been unregistered from a non-empty table.
C3_Witness ==
  /\ lastOp.op = "unregister"
  /\ ~lastOp.prior.ok
  /\ registry # {}

\* The tokens of the types of a dispatch call.
TokensOf(tinfos) == [i \in 1..Len(tinfos) |-> get_type_token(tinfos[i])]

\* C7: when every type dispatched on is a native H2 compute type,
\* do_dispatch calls the dense table's entry at the native key of the
\* tokens, makes no registry lookup, and so never calls a registered
\* function, whatever the registry holds.
C7_NativeBypassesRegistry ==
  (lastOp.op = "do_dispatch" /\ all_h2_compute_types(lastOp.tinfos)) =>
    LET index == KeyValue(get_native_dispatch_key(TokensOf(lastOp.tinfos)))
    IN /\ lastOp.out.raised = "none"
       /\ lastOp.out.lookups = <<>>
       /\ lastOp.out.calls =
            <<[func_ptr |-> dispatch_table(Len(lastOp.tinfos))[index].func_ptr,
               args |-> lastOp.args]>>
       /\ \A e \in registry : e.entry.func_ptr # lastOp.out.calls[1].func_ptr

\* An all-native dispatch has been made under a name and types for which a
\* function is registered.
C7_Witness ==
  /\ lastOp.op = "do_dispatch"
  /\ all_h2_compute_types(lastOp.tinfos)
  /\ has_dispatch_entry(registry, lastOp.name,
                        get_dispatch_key(TokensOf(lastOp.tinfos)))

\* C8: when a non-native compute type is dispatched on, do_dispatch builds
\* the general key of the tokens and calls exactly the function registered
\* under (name, key), once, with the given arguments; without an entry it
\* fails with not-found and calls nothing.
C8_NonNativeUsesRegistry ==
  (/\ lastOp.op = "do_dispatch"
   /\ all_compute_types(lastOp.tinfos)
   /\ ~all_h2_compute_types(lastOp.tinfos)) =>
    LET key == get_dispatch_key(TokensOf(lastOp.tinfos))
    IN /\ lastOp.out.keys = <<<<"general", key>>>>
       /\ lastOp.out.lookups = <<<<lastOp.name, key>>>>
       /\ IF has_dispatch_entry(registry, lastOp.name, key)
          THEN /\ lastOp.out.raised = "none"
               /\ lastOp.out.calls =
                    <<[func_ptr |->
                         get_dispatch_entry(registry, lastOp.name, key).entry.func_ptr,
                       args |-> lastOp.args]>>
          ELSE /\ lastOp.out.raised = "not_found"
               /\ lastOp.out.calls = <<>>

\* A dispatch on a (native, non-native) pair has called a registered function
\* while the same key is also registered under the other name.
C8_Witness ==
  /\ lastOp.op = "do_dispatch"
  /\ TokensOf(lastOp.tinfos) = <<0, max_token>>
  /\ all_compute_types(lastOp.tinfos)
  /\ Len(lastOp.out.calls) = 1
  /\ Cardinality(registry) = 2

\* C9: constructing DispatchOn from arguments of which one is not a compute
\* type raises H2FatalException: no key is built, no lookup is made and no
\* kernel is called.
C9_NonComputeTypeIsFatal ==
  (lastOp.op = "do_dispatch" /\ ~all_compute_types(lastOp.tinfos)) =>
    lastOp.out = Outcome("fatal", <<>>, <<>>, <<>>)

\* A dispatch on a non-compute type has been attempted with a non-empty
\* registry.
C9_Witness ==
  /\ lastOp.op = "do_dispatch"
  /\ ~all_compute_types(lastOp.tinfos)
  /\ lastOp.out.raised = "fatal"
  /\ registry # {}

(***************************************************************************)
(* Buffer copies as a state machine.                                       *)
(***************************************************************************)
CopyBuffer(dst, dst_stream, src, src_stream, count) ==
  LET eff == copy_buffer(has_gpu, mem, queue, dst, dst_stream, src, src_stream, count)
      grown == {s \in GPUStreamIds : Len(eff.queue[s]) > Len(queue[s])}
  IN /\ copies < MaxCopies
     /\ dst # src
     /\ copies' = copies + 1
     /\ mem' = eff.mem
     /\ queue' = eff.queue
     /\ lastCopy' = [dst |-> dst, src |-> src, dst_stream |-> dst_stream,
                     src_stream |-> src_stream, count |-> count,
                     raised |-> eff.raised, route |-> eff.route]
     /\ multi_syncs' =
          IF has_gpu /\ get_device(src_stream) = "GPU" /\ get_device(dst_stream) = "GPU"
          THEN multi_syncs \cup
                 {[dst_stream |-> dst_stream.id, src_stream |-> src_stream.id,
                   dst_before |-> Enqueued(executed, queue, dst_stream.id),
                   src_before |-> Enqueued(executed, queue, src_stream.id),
                   on |-> s, index |-> Enqueued(executed, eff.queue, s)] : s \in grown}
          ELSE multi_syncs
     /\ UNCHANGED <<has_gpu, events, executed, edges, keyVars, dispatchVars,
                    tensorVars, handleVars, bufferVars, interopVars, ndVars>>

\* One operation of stream id completes: every wait for it counts one
\* operation less.
Completed(q, id) ==
  [s \in GPUStreamIds |->
     LET ops == IF s = id THEN Tail(q[s]) ELSE q[s]
     IN [i \in 1..Len(ops) |->
           IF ops[i].kind = "wait" /\ ops[i].on = id /\ ops[i].remaining > 0
           THEN [ops[i] EXCEPT !.remaining = @ - 1]
           ELSE ops[i]]]

\* One operation of stream id completes: every event recorded on the stream
\* has one captured operation less to wait for.
EventsAfter(ev, id) ==
  [e \in Events |->
     IF ev[e].on = id /\ ev[e].remaining > 0
     THEN [ev[e] EXCEPT !.remaining = @ - 1]
     ELSE ev[e]]

\* The device runs the operation at the head of a GPU stream.
Execute(id) ==
  /\ queue[id] # <<>>
  /\ LET op == Head(queue[id])
     IN /\ op.kind = "wait" => op.remaining = 0
        /\ mem' = IF op.kind = "copy" THEN memcpy(mem, op.dst, op.src, op.count)
                  ELSE mem
  /\ queue' = Completed(queue, id)
  /\ events' = EventsAfter(events, id)
  /\ executed' = [executed EXCEPT ![id] = @ + 1]
  /\ UNCHANGED <<has_gpu, copies, lastCopy, multi_syncs, edges, keyVars,
                 dispatchVars, tensorVars, handleVars, bufferVars,
                 interopVars, ndVars>>

CopyInit ==
  /\ has_gpu \in BOOLEAN
  /\ mem = [b \in Buffers |-> [i \in 1..BufLen |-> IF b = "A" THEN 0 ELSE i]]
  /\ queue = [s \in GPUStreamIds |-> <<>>]
  /\ copies = 0
  /\ lastCopy = NoCopy
  /\ SyncInit
  /\ NdIdle
  /\ InteropIdle
  /\ BufferIdle
  /\ HandleIdle
  /\ TensorIdle
  /\ tokens = <<>>
  /\ dispatch_key = NoKey
  /\ native_key = NoKey
  /\ registry = {}
  /\ lastOp = NoOp

CopyNext ==
  \/ \E dst \in Buffers, src \in Buffers, dst_stream \in Streams,
        src_stream \in Streams, count \in 0..BufLen :
       CopyBuffer(dst, dst_stream, src, src_stream, count)
  \/ \E id \in GPUStreamIds : Execute(id)

SpecCopy == CopyInit /\ [][CopyNext]_vars

(***************************************************************************)
(* Properties of copy_buffer.                                              *)
(***************************************************************************)
\* C10: copy_buffer routes by the (source device, destination device) pair.
\* CPU to CPU: count elements are copied by the time the call returns and
\* nothing is enqueued.  GPU to GPU: the copy is enqueued through the
\* multi-sync of (dst_stream, src_stream).  CPU to GPU: the copy is enqueued
\* on the destination stream.  GPU to CPU: the copy is enqueued on the
\* source stream.  Every other pair (every pair with a GPU in a build
\* without GPU support) raises "Unknown device combination" and neither
\* moves nor enqueues anything.
C10_CopyBufferRouting ==
  [][copies' # copies =>
       LET c == lastCopy'
           src_dev == get_device(c.src_stream)
           dst_dev == get_device(c.dst_stream)
           op == CopyOp(c.dst, c.src, c.count)
       IN /\ (src_dev = "CPU" /\ dst_dev = "CPU") =>
               /\ c.raised = "none"
               /\ queue' = queue
               /\ \A i \in 1..BufLen :
                    mem'[c.dst][i] = IF i <= c.count THEN mem[c.src][i]
                                     ELSE mem[c.dst][i]
               /\ mem'[c.src] = mem[c.src]
          /\ (has_gpu /\ src_dev = "GPU" /\ dst_dev = "GPU") =>
               LET sync == create_multi_sync(queue, c.dst_stream, c.src_stream)
               IN /\ c.raised = "none"
                  /\ mem' = mem
                  /\ sync.stream = c.dst_stream
                  /\ queue' = [sync.queue EXCEPT ![c.dst_stream.id] = Append(@, op)]
          /\ (has_gpu /\ src_dev = "CPU" /\ dst_dev = "GPU") =>
               /\ c.raised = "none"
               /\ mem' = mem
               /\ queue' = [queue EXCEPT ![c.dst_stream.id] = Append(@, op)]
          /\ (has_gpu /\ src_dev = "GPU" /\ dst_dev = "CPU") =>
               /\ c.raised = "none"
               /\ mem' = mem
               /\ queue' = [queue EXCEPT ![c.src_stream.id] = Append(@, op)]
          /\ (~has_gpu /\ (src_dev = "GPU" \/ dst_dev = "GPU")) =>
               /\ c.raised = "Unknown device combination"
               /\ mem' = mem
               /\ queue' = queue
    ]_vars

\* A GPU to GPU copy between two different streams has been issued while
\* earlier work was still pending on the source stream.
C10_Witness ==
  /\ has_gpu
  /\ lastCopy.route = "multi_sync"
  /\ lastCopy.dst_stream.id # lastCopy.src_stream.id
  /\ \E i \in 1..Len(queue[lastCopy.dst_stream.id]) :
       /\ queue[lastCopy.dst_stream.id][i].kind = "wait"
       /\ queue[lastCopy.dst_stream.id][i].remaining > 0

(***************************************************************************)
(* Stream synchronization as a state machine: copies are the work of the   *)
(* streams, events and waits order it, the device runs the queues.         *)
(***************************************************************************)
GPUStreams == {s \in Streams : get_device(s) = "GPU"}

\* stream.add_sync_point(event)
AddSyncPoint(stream, event) ==
  /\ events' = add_sync_point(events, executed, queue, stream, event)
  /\ UNCHANGED <<executed, multi_syncs, edges, has_gpu, mem, queue, copies,
                 lastCopy, keyVars, dispatchVars, tensorVars, handleVars,
                 bufferVars, interopVars, ndVars>>

\* stream.wait_for(event).  On a CPU stream the call returns once the work
\* captured by the event has completed, and enqueues nothing.
WaitFor(stream, event) ==
  /\ Cardinality(edges) < MaxEdges
  /\ IF get_device(stream) = "GPU"
     THEN /\ queue' = wait_for_event(events, queue, stream, event)
          /\ edges' = edges \cup
                        {[from |-> events[event].on, upto |-> events[event].upto,
                          to |-> stream.id,
                          after |-> Enqueued(executed, queue, stream.id)]}
     ELSE /\ events[event].remaining = 0
          /\ UNCHANGED <<queue, edges>>
  /\ UNCHANGED <<events, executed, multi_syncs, has_gpu, mem, copies, lastCopy,
                 keyVars, dispatchVars, tensorVars, handleVars, bufferVars,
                 interopVars, ndVars>>

\* stream.wait_for(other) for two GPU streams.
WaitForStream(stream, other) ==
  /\ Cardinality(edges) < MaxEdges
  /\ queue' = wait_for_stream(queue, stream, other)
  /\ edges' = edges \cup
                {[from |-> other.id, upto |-> Enqueued(executed, queue, other.id),
                  to |-> stream.id,
                  after |-> Enqueued(executed, queue, stream.id)]}
  /\ UNCHANGED <<events, executed, multi_syncs, has_gpu, mem, copies, lastCopy,
                 keyVars, dispatchVars, tensorVars, handleVars, bufferVars,
                 interopVars, ndVars>>

SyncSpecInit ==
  /\ has_gpu = TRUE
  /\ mem = [b \in Buffers |-> [i \in 1..BufLen |-> IF b = "A" THEN 0 ELSE i]]
  /\ queue = [s \in GPUStreamIds |-> <<>>]
  /\ copies = 0
  /\ lastCopy = NoCopy
  /\ SyncInit
  /\ NdIdle
  /\ InteropIdle
  /\ BufferIdle
  /\ HandleIdle
  /\ TensorIdle
  /\ tokens = <<>>
  /\ dispatch_key = NoKey
  /\ native_key = NoKey
  /\ registry = {}
  /\ lastOp = NoOp

\* The source streams from which the machine copies to dst_stream: the CPU
\* stream, and for a GPU destination every other GPU stream.
SourceStreams(dst_stream) ==
  {s \in Streams : get_device(s) = "CPU"
                      \/ (get_device(dst_stream) = "GPU" /\ s # dst_stream)}

SyncNext ==
  \/ \E dst_stream \in Streams : \E src_stream \in SourceStreams(dst_stream) :
       CopyBuffer("A", dst_stream, "B", src_stream, BufLen)
  \/ \E stream \in GPUStreams, event \in Events : AddSyncPoint(stream, event)
  \/ \E stream \in GPUStreams, event \in Events : WaitFor(stream, event)
  \/ \E stream \in GPUStreams : \E other \in GPUStreams \ {stream} : WaitForStream(stream, other)
  \/ \E id \in GPUStreamIds : Execute(id)

SpecSync == SyncSpecInit /\ [][SyncNext]_vars

(***************************************************************************)
(* Properties of stream ordering.                                          *)
(***************************************************************************)
\* C11: a GPU to GPU copy_buffer is issued on the main stream of
\* create_multi_sync(dst_stream, src_stream), which is the destination
\* stream, and it does not run before all the work enqueued earlier on the
\* source stream and on the destination stream has completed, however the
\* device interleaves the two queues.
C11_GpuCopyAfterBothStreams ==
  \A r \in multi_syncs :
    /\ r.on = r.dst_stream
    /\ create_multi_sync(queue, ComputeStream("GPU", r.dst_stream),
                         ComputeStream("GPU", r.src_stream)).stream.id = r.on
    /\ executed[r.on] >= r.index =>
         /\ executed[r.src_stream] >= r.src_before
         /\ executed[r.dst_stream] >= r.dst_before

\* A GPU to GPU copy between two streams that both had earlier work has run.
C11_Witness ==
  \E r \in multi_syncs :
    /\ r.src_stream # r.dst_stream
    /\ r.src_before > 0
    /\ r.dst_before > 0
    /\ executed[r.on] >= r.index

\* C12: work on two GPU streams is ordered only by explicit edges.  When a
\* stream waits for an event recorded on another stream (or for the other
\* stream itself), nothing enqueued on the waiting stream after the wait
\* runs before everything enqueued on the other stream before the record
\* has completed.  When no wait is pending, the device may run the head of
\* either queue first, so both completion orders are possible.  A copy
\* between CPU streams is complete when copy_buffer returns.
C12_OrderOnlyByExplicitEdges ==
  /\ [](\A e \in edges :
          (e.from # 0 /\ executed[e.to] > e.after) => executed[e.from] >= e.upto)
  /\ []((\A s \in GPUStreamIds :
           /\ queue[s] # <<>>
           /\ \A i \in 1..Len(queue[s]) : queue[s][i].kind # "wait")
        => \A s \in GPUStreamIds : ENABLED Execute(s))
  /\ [][(copies' # copies /\ get_device(lastCopy'.src_stream) = "CPU"
                          /\ get_device(lastCopy'.dst_stream) = "CPU")
        => /\ queue' = queue
           /\ \A i \in 1..lastCopy'.count :
                mem'[lastCopy'.dst][i] = mem[lastCopy'.src][i]]_vars

\* Stream 2 waited for work of stream 1 that was still pending, the device
\* has run that work and then work enqueued on stream 2 after the wait.
C12_Witness ==
  \E e \in edges :
    /\ e.from # 0
    /\ e.from # e.to
    /\ e.upto > 0
    /\ executed[e.from] >= e.upto
    /\ executed[e.to] > e.after + 1

(***************************************************************************)
(* Tensor copies as a state machine: Init constructs either the tensors    *)
(* src and dst or, on every process, the distributed tensors src and dst;  *)
(* each caller makes one call; the device runs the transfers enqueued.     *)
(***************************************************************************)
ElementTypes == {"float", "double"}

\* The layouts of one or two dimensions, with any positive strides, that
\* fit in MaxExtent elements.
Layouts ==
  {l \in [shape : TuplesOver(1..MaxExtent, 1, 2),
          strides : TuplesOver(1..MaxExtent, 1, 2)] :
     /\ Len(l.shape) = Len(l.strides)
     /\ get_extent_from_strides(l.shape, l.strides) <= MaxExtent}

DimTypes(shape, tag) == [i \in 1..Len(shape) |-> tag]

\* The streams a tensor can be on.
TensorStreams(gpu) == {s \in Streams : gpu \/ get_device(s) = "CPU"}

\* The source tensors: every layout, with its buffer or (lazy) without,
\* and the empty tensor.
SrcTensors(gpu) ==
  {Tensor("float", get_device(st), l.shape, DimTypes(l.shape, "Sample"),
          l.strides, data, st, FALSE) :
     l \in Layouts, data \in {"src", Null}, st \in TensorStreams(gpu)}
  \cup {Tensor("float", get_device(st), <<>>, <<>>, <<>>, Null, st, FALSE) :
          st \in TensorStreams(gpu)}

\* The destination tensors before the call: empty, holding two elements, or
\* lazy with a strided layout.
DstTensors(gpu) ==
  UNION {{Tensor(type, get_device(st), <<>>, <<>>, <<>>, Null, st, FALSE),
          Tensor(type, get_device(st), <<2>>, <<"Any">>, <<1>>, "dst", st, FALSE),
          Tensor(type, get_device(st), <<1, 1>>, <<"Any", "Any">>, <<1, 2>>,
                 Null, st, FALSE)} :
           type \in ElementTypes, st \in TensorStreams(gpu)}

\* copy(dst, src) on the two tensors.
TensorCopy ==
  /\ "src" \in DOMAIN tensors
  /\ lastCall[0].op = "none"
  /\ LET eff == copy(has_gpu, mem, queue, tensors.dst, tensors.src, "dst")
     IN /\ tensors' = [tensors EXCEPT !.dst = eff.dst]
        /\ mem' = eff.mem
        /\ queue' = eff.queue
        /\ lastCall' = [lastCall EXCEPT ![0] =
                          [op |-> "copy", raised |-> eff.raised,
                           trace |-> eff.trace, calls |-> eff.calls,
                           dev |-> "none", stream |-> NoStream]]
  /\ UNCHANGED <<h2_debug, is_integrated, dtensors, priors, has_gpu, copies,
                 lastCopy, keyVars, dispatchVars, syncVars, handleVars,
                 bufferVars, interopVars, ndVars>>

\* make_accessible_on_device(src, dev, stream); a stream that is passed is
\* a stream of dev.
MakeAccessibleOnDevice(dev, stream) ==
  /\ "src" \in DOMAIN tensors
  /\ lastCall[0].op = "none"
  /\ stream = NoStream \/ get_device(stream) = dev
  /\ LET eff == make_accessible_on_device(has_gpu, is_integrated, mem, queue,
                                          tensors.src, dev, stream, "acc")
     IN /\ tensors' = [tensors EXCEPT !.acc = IF eff.raised = "none" THEN eff.dst
                                              ELSE @]
        /\ mem' = eff.mem
        /\ queue' = eff.queue
        /\ lastCall' = [lastCall EXCEPT ![0] =
                          [op |-> "make_accessible_on_device",
                           raised |-> eff.raised, trace |-> eff.trace,
                           calls |-> eff.calls, dev |-> dev, stream |-> stream]]
  /\ UNCHANGED <<h2_debug, is_integrated, dtensors, priors, has_gpu, copies,
                 lastCopy, keyVars, dispatchVars, syncVars, handleVars,
                 bufferVars, interopVars, ndVars>>

\* copy(dst, src) on the distributed tensors, as called by process p.
DistCopy(p) ==
  /\ p \in DOMAIN dtensors
  /\ lastCall[p].op = "none"
  /\ LET eff == dist_copy(h2_debug, has_gpu, mem, queue, dtensors[p].dst,
                          dtensors[p].src, LocalBuffer(p, "dst"))
     IN /\ dtensors' = [dtensors EXCEPT ![p].dst = eff.dst]
        /\ mem' = eff.mem
        /\ queue' = eff.queue
        /\ lastCall' = [lastCall EXCEPT ![p] =
                          [op |-> "copy", raised |-> eff.raised,
                           trace |-> eff.trace, calls |-> eff.calls,
                           dev |-> "none", stream |-> NoStream]]
  /\ UNCHANGED <<h2_debug, is_integrated, tensors, priors, has_gpu, copies,
                 lastCopy, keyVars, dispatchVars, syncVars, handleVars,
                 bufferVars, interopVars, ndVars>>

\* The grid of src, a congruent grid on another communicator, and a grid
\* of the same processes in another arrangement.
SrcGrid == ProcGrid(1, <<2>>)

DstGrids == {SrcGrid, ProcGrid(2, <<2>>), ProcGrid(3, <<1, 2>>)}

Distributions == {"Block", "Single", "Replicated"}

\* The global shapes of the distributed source: none (empty) or one
\* dimension.
DistShapes == {<<>>} \cup {<<n>> : n \in 1..MaxExtent}

\* The stream of the local tensors of process p on a device.
LocalStream(device, p) == ComputeStream(device, IF device = "GPU" THEN p ELSE 0)

\* The distributed source as process p holds it: the local tensor has the
\* shape of the share of p, packed or with a stride of two, with its buffer
\* or (lazy) without.
DistSrc(p, shape, dist, device, strided, materialized) ==
  LET local_shape == get_local_shape(shape, DimTypes(shape, dist), SrcGrid, p - 1)
      strides == IF strided THEN [i \in 1..Len(local_shape) |-> 2]
                 ELSE contiguous_strides(local_shape)
  IN DistTensor("float", shape, DimTypes(shape, "Sample"), DimTypes(shape, dist),
                SrcGrid, p - 1,
                Tensor("float", device, local_shape,
                       DimTypes(local_shape, "Sample"), strides,
                       IF materialized /\ local_shape # <<>>
                       THEN LocalBuffer(p, "src") ELSE Null,
                       LocalStream(device, p), FALSE))

\* The distributed destination as process p holds it before the call: empty,
\* or two replicated elements.
DistDst(p, type, grid, device, full) ==
  LET shape == IF full THEN <<2>> ELSE <<>>
  IN DistTensor(type, shape, DimTypes(shape, "Any"), DimTypes(shape, "Replicated"),
                grid, p - 1,
                Tensor(type, device, shape, DimTypes(shape, "Any"),
                       contiguous_strides(shape),
                       IF full THEN LocalBuffer(p, "dst") ELSE Null,
                       LocalStream(device, p), FALSE))

TensorCase ==
  /\ h2_debug = FALSE
  /\ is_integrated \in {b \in BOOLEAN : has_gpu \/ ~b}
  /\ \E src \in SrcTensors(has_gpu), dst \in DstTensors(has_gpu) :
       tensors = [src |-> src, dst |-> dst, acc |-> NoTensor]
  /\ dtensors = <<>>

DistCase ==
  /\ h2_debug \in BOOLEAN
  /\ is_integrated = FALSE
  /\ tensors = <<>>
  /\ \E shape \in DistShapes, dist \in Distributions, type \in ElementTypes,
        grid \in DstGrids, device \in {get_device(s) : s \in TensorStreams(has_gpu)},
        strided \in BOOLEAN, materialized \in BOOLEAN, full \in BOOLEAN :
       /\ strided =>
            \A p \in Procs :
              LET local == DistSrc(p, shape, dist, device, strided, materialized).local
              IN get_extent_from_strides(local.shape, local.strides) <= MaxExtent
       /\ dtensors = [p \in Procs |->
                        [src |-> DistSrc(p, shape, dist, device, strided, materialized),
                         dst |-> DistDst(p, type, grid, device, full)]]

TensorInit ==
  /\ has_gpu \in BOOLEAN
  /\ TensorCase \/ DistCase
  /\ priors = [tensors |-> tensors, dtensors |-> dtensors]
  /\ lastCall = [c \in Callers |-> NoCall]
  /\ mem = TensorMem
  /\ queue = [s \in GPUStreamIds |-> <<>>]
  /\ copies = 0
  /\ lastCopy = NoCopy
  /\ SyncInit
  /\ NdIdle
  /\ InteropIdle
  /\ BufferIdle
  /\ HandleIdle
  /\ tokens = <<>>
  /\ dispatch_key = NoKey
  /\ native_key = NoKey
  /\ registry = {}
  /\ lastOp = NoOp

TensorNext ==
  \/ TensorCopy
  \/ \E dev \in {"CPU", "GPU"}, stream \in Streams \cup {NoStream} :
       MakeAccessibleOnDevice(dev, stream)
  \/ \E p \in Procs : DistCopy(p)
  \/ \E id \in GPUStreamIds : Execute(id)

SpecTensor == TensorInit /\ [][TensorNext]_vars

(***************************************************************************)
(* Properties of the tensor copies.                                        *)
(***************************************************************************)
\* The tensor call has been made / process p has made its call.
Copied == "src" \in DOMAIN tensors /\ lastCall[0].op = "copy"

DistCopied(p) == p \in DOMAIN dtensors /\ lastCall[p].op = "copy"

\* The call of process p got past the comparison of the grids: the grids
\* are congruent, or the build does not compare them.
GridsAccepted(p) ==
  \/ is_congruent_to(priors.dtensors[p].src.proc_grid,
                     priors.dtensors[p].dst.proc_grid)
  \/ ~h2_debug

\* Every transfer enqueued on a GPU stream has run.
TransfersCompleted == \A s \in GPUStreamIds : queue[s] = <<>>

Indices(shape) ==
  {idx \in [1..Len(shape) -> 0..MaxExtent] :
     \A i \in 1..Len(shape) : idx[i] < shape[i]}

\* Position in its buffer of the element of t at idx.
ElementAt(t, idx) == 1 + inner_product(idx, t.strides)

\* C14: after copy(dst, src) of two tensors of the same element type with
\* a non-empty src that has its buffer, dst has the shape, dimension types
\* and strides of src and a non-null data pointer; dst was resized and
\* ensured before the transfer was issued; once the transfer has completed
\* every element of dst equals the element of src at the same index; src is
\* unchanged.
C14_CopyReproducesSource ==
  LET src == priors.tensors.src
      dst == tensors.dst
  IN (Copied /\ ~is_empty(src) /\ src.data # Null
             /\ src.type = priors.tensors.dst.type) =>
       /\ lastCall[0].raised = "none"
       /\ dst.shape = src.shape
       /\ dst.dim_types = src.dim_types
       /\ dst.strides = src.strides
       /\ dst.data # Null
       /\ lastCall[0].trace = <<"resize", "ensure", "copy_buffer">>
       /\ tensors.src = src
       /\ mem[src.data] = TensorMem[src.data]
       /\ TransfersCompleted =>
            \A idx \in Indices(src.shape) :
              mem[dst.data][ElementAt(dst, idx)] = mem[src.data][ElementAt(src, idx)]

\* A strided tensor has been copied to a tensor on a GPU stream and the
\* transfer has run.
C14_Witness ==
  /\ Copied
  /\ lastCall[0].raised = "none"
  /\ lastCall[0].calls # <<>>
  /\ ~is_contiguous(priors.tensors.src)
  /\ numel(priors.tensors.src.shape) > 1
  /\ get_device(tensors.dst.stream) = "GPU"
  /\ TransfersCompleted

\* The messages of the "conversion not supported" errors of the two copy
\* overloads.
ConversionNotSupported ==
  {"Data type conversion in Copy not currently supported",
   "Data type conversion is copy is not currently supported"}

NonCongruent(p) ==
  ~is_congruent_to(priors.dtensors[p].src.proc_grid,
                   priors.dtensors[p].dst.proc_grid)

\* C16 as claimed: copy(dst, src) of distributed tensors whose grids are not
\* congruent fails before any data movement, in every build: dst is not
\* resized, not ensured, no copy_buffer call is made, and the buffer and
\* shape of dst are untouched.
C16_AnyBuildRejectsNonCongruentGrids ==
  \A p \in Procs :
    (DistCopied(p) /\ NonCongruent(p)) =>
      /\ lastCall[p].raised # "none"
      /\ lastCall[p].trace = <<>>
      /\ lastCall[p].calls = <<>>
      /\ dtensors[p].dst = priors.dtensors[p].dst
      /\ mem = TensorMem

\* C16, amended: in a build with H2_DEBUG, copy(dst, src) of distributed
\* tensors whose grids are not congruent fails before any data movement:
\* dst is not resized, not ensured, no copy_buffer call is made, and the
\* buffer and shape of dst are untouched.
C16_DebugBuildRejectsNonCongruentGrids ==
  \A p \in Procs :
    (h2_debug /\ DistCopied(p) /\ NonCongruent(p)) =>
      /\ lastCall[p].raised
           = "Cannot copy between DistTensors on non-congruent processor grids"
      /\ lastCall[p].trace = <<>>
      /\ lastCall[p].calls = <<>>
      /\ dtensors[p].dst = priors.dtensors[p].dst
      /\ mem = TensorMem

\* In a debug build a process has copied a non-empty distributed tensor to
\* one of the same type that held data on a non-congruent grid.
C16_Witness ==
  \E p \in Procs :
    /\ h2_debug
    /\ DistCopied(p)
    /\ NonCongruent(p)
    /\ ~is_local_empty(priors.dtensors[p].src)
    /\ priors.dtensors[p].src.local.data # Null
    /\ priors.dtensors[p].src.type = priors.dtensors[p].dst.type
    /\ priors.dtensors[p].dst.local.data # Null

\* The call of process p reached internal::copy_same_type: the grids were
\* accepted, src is not (globally) empty, the local share is empty or has
\* its buffer, and the element types agree.
ReachedCopySameType(p) ==
  /\ DistCopied(p)
  /\ GridsAccepted(p)
  /\ ~is_empty(priors.dtensors[p].src)
  /\ is_local_empty(priors.dtensors[p].src)
       \/ priors.dtensors[p].src.local.data # Null
  /\ priors.dtensors[p].src.type = priors.dtensors[p].dst.type

\* The buffers of the local tensors of process p.
LocalBuffers(p) == {LocalBuffer(p, "src"), LocalBuffer(p, "dst")}

C19_DstKeepsItsGrid ==
  \A p \in Procs :
    (DistCopied(p) /\ lastCall[p].raised = "none") =>
      /\ dtensors[p].dst.shape = priors.dtensors[p].src.shape
      /\ dtensors[p].dst.dim_types = priors.dtensors[p].src.dim_types
      /\ dtensors[p].dst.distribution = priors.dtensors[p].src.distribution
      /\ dtensors[p].dst.proc_grid = priors.dtensors[p].dst.proc_grid

\* A process has copied a non-empty distributed tensor to one that held
\* data on a congruent grid over another communicator.
C19_Witness ==
  \E p \in Procs :
    /\ DistCopied(p)
    /\ lastCall[p].raised = "none"
    /\ lastCall[p].calls # <<>>
    /\ priors.dtensors[p].dst.proc_grid # priors.dtensors[p].src.proc_grid
    /\ priors.dtensors[p].dst.shape # priors.dtensors[p].src.shape
    /\ priors.dtensors[p].dst.local.data # Null

\* make_accessible_on_device has been called.
MadeAccessible ==
  "src" \in DOMAIN tensors /\ lastCall[0].op = "make_accessible_on_device"

\* C20: make_accessible_on_device(src, dev, stream) with src on dev returns
\* a view of src: its data pointer is that of src, no buffer is allocated
\* and no copy_buffer call is made; the stream of the view is the stream
\* passed, or the stream of src when none is passed; the stream of src is
\* not changed.
C20_SameDeviceReturnsView ==
  (MadeAccessible /\ priors.tensors.src.device = lastCall[0].dev) =>
    /\ lastCall[0].raised = "none"
    /\ tensors.acc.view
    /\ tensors.acc.data = priors.tensors.src.data
    /\ \A i \in 1..Len(lastCall[0].trace) :
         lastCall[0].trace[i] \notin {"allocate", "ensure", "copy_buffer"}
    /\ lastCall[0].calls = <<>>
    /\ mem = TensorMem
    /\ TransfersCompleted
    /\ tensors.acc.stream = IF lastCall[0].stream # NoStream
                            THEN lastCall[0].stream
                            ELSE priors.tensors.src.stream
    /\ tensors.src = priors.tensors.src

\* A tensor with its buffer on a GPU stream has been made accessible on the
\* GPU with another stream passed.
C20_Witness ==
  /\ MadeAccessible
  /\ lastCall[0].dev = "GPU"
  /\ priors.tensors.src.device = "GPU"
  /\ priors.tensors.src.data # Null
  /\ lastCall[0].stream # NoStream
  /\ lastCall[0].stream # priors.tensors.src.stream

\* make_accessible_on_device has been called for another device than the
\* device of src.
MadeAccessibleElsewhere ==
  MadeAccessible /\ priors.tensors.src.device # lastCall[0].dev

\* The stream passed, or the default stream of dev when none was passed.
RealStream ==
  IF lastCall[0].stream # NoStream THEN lastCall[0].stream
  ELSE DefaultStream(lastCall[0].dev)

\* The call returned a view of src on dev: the buffer is that of src, nothing
\* was allocated and nothing was copied.
ReturnedViewOnDevice ==
  /\ lastCall[0].raised = "none"
  /\ tensors.acc.view
  /\ tensors.acc.device = lastCall[0].dev
  /\ tensors.acc.data = priors.tensors.src.data
  /\ tensors.acc.shape = priors.tensors.src.shape
  /\ lastCall[0].trace = <<"view">>
  /\ lastCall[0].calls = <<>>
  /\ mem = TensorMem
  /\ TransfersCompleted
  /\ tensors.acc.stream = RealStream

\* The call returned a new tensor on dev with the shape and the dimension
\* types of src, after a tensor copy from src into it.
ReturnedCopyOnDevice ==
  LET src == priors.tensors.src
      acc == tensors.acc
  IN /\ lastCall[0].raised = "none"
     /\ ~acc.view
     /\ acc.device = lastCall[0].dev
     /\ acc.shape = src.shape
     /\ acc.dim_types = src.dim_types
     /\ acc.stream = RealStream
     /\ Head(lastCall[0].trace) = "allocate"
     /\ IF is_empty(src)
        THEN /\ Tail(lastCall[0].trace) = <<"empty">>
             /\ lastCall[0].calls = <<>>
        ELSE /\ Tail(lastCall[0].trace) = <<"resize", "ensure", "copy_buffer">>
             /\ acc.data = "acc"
             /\ lastCall[0].calls =
                  <<CopyCall("acc", RealStream, src.data, src.stream,
                             IF is_contiguous(src) THEN numel(src.shape)
                             ELSE get_extent_from_strides(src.shape, src.strides))>>
             /\ TransfersCompleted =>
                  \A idx \in Indices(src.shape) :
                    mem["acc"][ElementAt(acc, idx)] = mem[src.data][ElementAt(src, idx)]

\* The call raised the "Unknown device" exception and returned nothing.
RaisedUnknownDevice ==
  /\ lastCall[0].raised = "Unknown device"
  /\ tensors.acc = NoTensor
  /\ lastCall[0].calls = <<>>
  /\ mem = TensorMem

\* C21 as stated: make_accessible_on_device(src, dev, stream) with src on
\* another device than dev returns a view on dev of the buffer of src on an
\* integrated GPU system, returns a new tensor on dev after a tensor copy
\* from src on a GPU system that is not integrated, and raises "Unknown
\* device" in a build without GPU support; the stream of the result is the
\* stream passed or the default stream of dev.
C21_OtherDeviceAlwaysReturns ==
  MadeAccessibleElsewhere =>
    IF ~has_gpu THEN RaisedUnknownDevice
    ELSE IF is_integrated THEN ReturnedViewOnDevice
    ELSE ReturnedCopyOnDevice

\* C21: as above, except that on a GPU system that is not integrated a
\* non-empty src without a data pointer makes the tensor copy raise its
\* "Cannot copy a non-empty tensor with no data" assertion, and nothing is
\* returned.
C21_OtherDevice ==
  MadeAccessibleElsewhere =>
    IF ~has_gpu THEN RaisedUnknownDevice
    ELSE IF is_integrated THEN ReturnedViewOnDevice
    ELSE IF ~is_empty(priors.tensors.src) /\ priors.tensors.src.data = Null
    THEN /\ lastCall[0].raised = "Cannot copy a non-empty tensor with no data"
         /\ tensors.acc = NoTensor
         /\ lastCall[0].calls = <<>>
         /\ mem = TensorMem
    ELSE ReturnedCopyOnDevice

\* A strided tensor on the CPU has been made accessible on the GPU of a
\* system that is not integrated, no stream was passed, and the transfer
\* has run.
C21_Witness ==
  /\ MadeAccessibleElsewhere
  /\ has_gpu
  /\ ~is_integrated
  /\ lastCall[0].dev = "GPU"
  /\ lastCall[0].stream = NoStream
  /\ lastCall[0].raised = "none"
  /\ ~is_contiguous(priors.tensors.src)
  /\ lastCall[0].calls # <<>>
  /\ TransfersCompleted

\* A tensor copy from src has handed a transfer to copy_buffer.
TransferIssued ==
  /\ "src" \in DOMAIN tensors
  /\ lastCall[0].op \in {"copy", "make_accessible_on_device"}
  /\ lastCall[0].calls # <<>>

\* The offset in its buffer of the element of t at idx.
OffsetOf(t, idx) == inner_product(idx, t.strides)

\* The count is numel for a contiguous src and the extent of the strides
\* otherwise, and every element of src is at an offset below the extent.
CountCoversSource ==
  LET src == priors.tensors.src
      extent == get_extent_from_strides(src.shape, src.strides)
      count == lastCall[0].calls[1].count
  IN /\ Len(lastCall[0].calls) = 1
     /\ src.strides = contiguous_strides(src.shape) => count = numel(src.shape)
     /\ src.strides # contiguous_strides(src.shape) => count = extent
     /\ \A idx \in Indices(src.shape) :
          /\ OffsetOf(src, idx) < extent
          /\ OffsetOf(src, idx) < count

\* Distinct indices of t address distinct elements.
NonOverlapping(t) ==
  \A idx, other \in Indices(t.shape) :
    OffsetOf(t, idx) = OffsetOf(t, other) => idx = other

\* C25 as stated: the count handed to copy_buffer is numel(src) for a
\* contiguous src and get_extent_from_strides(shape, strides) otherwise;
\* for every non-empty shape with positive strides the extent is at least
\* numel(src) and above the offset of every element of src.
C25_ExtentAtLeastNumel ==
  TransferIssued =>
    /\ CountCoversSource
    /\ get_extent_from_strides(priors.tensors.src.shape,
                               priors.tensors.src.strides)
         >= numel(priors.tensors.src.shape)

\* C25: as above, except that the extent is at least numel(src) only when
\* distinct indices address distinct elements; with overlapping strides it
\* can be smaller, and still is above the offset of every element.
C25_ExtentCoversSource ==
  TransferIssued =>
    /\ CountCoversSource
    /\ NonOverlapping(priors.tensors.src) =>
         get_extent_from_strides(priors.tensors.src.shape,
                                 priors.tensors.src.strides)
           >= numel(priors.tensors.src.shape)

\* A tensor of two dimensions whose elements are spread out has been copied:
\* the count is above numel.
C25_Witness ==
  /\ TransferIssued
  /\ Len(priors.tensors.src.shape) = 2
  /\ NonOverlapping(priors.tensors.src)
  /\ lastCall[0].calls[1].count > numel(priors.tensors.src.shape)
  /\ numel(priors.tensors.src.shape) > 1

(***************************************************************************)
(* Streams and events as map keys: objects are created anew or copied, and *)
(* values are stored under them in one unordered_map per type.             *)
(***************************************************************************)
MapValues == {1, 2}

\* What an object wraps: the one CPU context, or the context that a
\* create_new_* call for the GPU made.
ContextOf(h) == <<h.type, IF h.device = "GPU" THEN h.context ELSE 0>>

\* ComputeStream s = create_new_compute_stream<Dev>() and
\* SyncEvent e = create_new_sync_event<Dev>()
CreateNew(type, device) ==
  /\ Len(handles) < MaxHandles
  /\ device = "GPU" => has_gpu
  /\ handles' = Append(handles, create_new(handles, type, device, Len(handles) + 1))
  /\ UNCHANGED <<handle_map, expected, keyVars, dispatchVars, copyVars,
                 syncVars, tensorVars, bufferVars, interopVars, ndVars>>

\* ComputeStream s3 = s1 and SyncEvent e3 = e1
CopyHandle(i) ==
  /\ Len(handles) < MaxHandles
  /\ i \in DOMAIN handles
  /\ handles' = Append(handles, handles[i])
  /\ UNCHANGED <<handle_map, expected, keyVars, dispatchVars, copyVars,
                 syncVars, tensorVars, bufferVars, interopVars, ndVars>>

\* map[handle] = v
MapAssign(i, v) ==
  /\ i \in DOMAIN handles
  /\ handle_map' = [handle_map EXCEPT ![handles[i].type] =
                      map_assign(@, handles[i], v)]
  /\ expected' = [k \in DOMAIN expected \cup {ContextOf(handles[i])} |->
                    IF k = ContextOf(handles[i]) THEN v ELSE expected[k]]
  /\ UNCHANGED <<handles, keyVars, dispatchVars, copyVars, syncVars, tensorVars,
                 bufferVars, interopVars, ndVars>>

HandleInit ==
  /\ has_gpu \in BOOLEAN
  /\ HandleIdle
  /\ mem = [b \in Buffers |-> [i \in 1..BufLen |-> 0]]
  /\ queue = [s \in GPUStreamIds |-> <<>>]
  /\ copies = 0
  /\ lastCopy = NoCopy
  /\ SyncInit
  /\ NdIdle
  /\ InteropIdle
  /\ BufferIdle
  /\ TensorIdle
  /\ tokens = <<>>
  /\ dispatch_key = NoKey
  /\ native_key = NoKey
  /\ registry = {}
  /\ lastOp = NoOp

HandleNext ==
  \/ \E type \in HandleTypes, device \in {"CPU", "GPU"} : CreateNew(type, device)
  \/ \E i \in 1..MaxHandles : CopyHandle(i)
  \/ \E i \in 1..MaxHandles, v \in MapValues : MapAssign(i, v)

SpecHandle == HandleInit /\ [][HandleNext]_vars

\* C22: any two CPU streams (any two CPU events) are equal and have the same
\* hash, also when separate create_new calls made them; two GPU streams
\* (events) are equal exactly when they wrap what one create_new call made,
\* so a copy equals its original and separately created ones differ; equal
\* objects have equal hashes; in an unordered_map a lookup under an object
\* finds the value last stored under any object of the same context, and
\* nothing when no value was stored under that context.
C22_EqualityFollowsContext ==
  /\ \A i, j \in DOMAIN handles :
       handles[i].type = handles[j].type =>
         /\ (handles[i].device = "CPU" /\ handles[j].device = "CPU") =>
              /\ handle_equal(handles[i], handles[j])
              /\ handle_hash(handles[i]) = handle_hash(handles[j])
         /\ (handles[i].device = "GPU" /\ handles[j].device = "GPU") =>
              /\ handle_equal(handles[i], handles[j])
                   <=> handles[i].context = handles[j].context
              /\ handles[i].context = handles[j].context =>
                   handle_hash(handles[i]) = handle_hash(handles[j])
  /\ \A i \in DOMAIN handles :
       LET map == handle_map[handles[i].type]
       IN IF ContextOf(handles[i]) \in DOMAIN expected
          THEN /\ map_count(map, handles[i]) = 1
               /\ map_at(map, handles[i]) = expected[ContextOf(handles[i])]
          ELSE map_count(map, handles[i]) = 0

\* Two GPU streams were created separately, the first was copied, and
\* different values are stored under the first two.
C22_Witness ==
  /\ Len(handles) = 3
  /\ \A i \in 1..3 : handles[i].type = "ComputeStream" /\ handles[i].device = "GPU"
  /\ handles[1].context # handles[2].context
  /\ handles[3].context = handles[1].context
  /\ map_count(handle_map["ComputeStream"], handles[3]) = 1
  /\ map_count(handle_map["ComputeStream"], handles[2]) = 1
  /\ map_at(handle_map["ComputeStream"], handles[3])
       # map_at(handle_map["ComputeStream"], handles[2])

(***************************************************************************)
(* Tensors, views and weak views of one another's buffers: holders are     *)
(* created, written through and destroyed in any order.                    *)
(***************************************************************************)
WriteValues == {1, 2}

\* The holders that can be used: constructed and not destroyed.
Alive == {h \in DOMAIN holders : holders[h].alive}

\* The tensors and views that hold allocation b.
Owning(b) ==
  {h \in Alive : holders[h].kind \in {"tensor", "view"} /\ holders[h].buf = b}

\* Tensor<T> t(dev, shape, dim_types, StrictAlloc): a tensor with a buffer of
\* its own.
NewTensor ==
  /\ Len(holders) < MaxHolders
  /\ heap' = allocate(heap, 0)
  /\ holders' = Append(holders,
                       Holder("tensor", Len(heap) + 1, Len(holders) + 1, TRUE))
  /\ written' = Append(written, 0)
  /\ UNCHANGED <<keyVars, dispatchVars, copyVars, syncVars, tensorVars,
                 handleVars, interopVars, ndVars>>

\* auto view = t.view(), of a tensor or of a view.
NewView(h) ==
  /\ Len(holders) < MaxHolders
  /\ h \in Alive
  /\ holders[h].kind \in {"tensor", "view"}
  /\ LET made == view_buffer(heap, holders[h].buf)
     IN /\ heap' = made.heap
        /\ holders' = Append(holders,
                             Holder("view", made.buf, holders[h].root, TRUE))
  /\ written' = Append(written, 0)
  /\ UNCHANGED <<keyVars, dispatchVars, copyVars, syncVars, tensorVars,
                 handleVars, interopVars, ndVars>>

\* auto matrix = as_h_mat(t)
NewWeakView(h) ==
  /\ Len(holders) < MaxHolders
  /\ h \in Alive
  /\ holders[h].kind \in {"tensor", "view"}
  /\ LET made == weak_view_buffer(heap, holders[h].buf)
     IN /\ heap' = made.heap
        /\ holders' = Append(holders,
                             Holder("weak", made.buf, holders[h].root, TRUE))
  /\ written' = Append(written, 0)
  /\ UNCHANGED <<keyVars, dispatchVars, copyVars, syncVars, tensorVars,
                 handleVars, interopVars, ndVars>>

\* A write to the data of a tensor or a view, or to the data of a matrix
\* whose buffer is still allocated.
Write(h, v) ==
  /\ h \in Alive
  /\ ~heap[holders[h].buf].freed
  /\ heap' = [heap EXCEPT ![holders[h].buf].value = v]
  /\ written' = [written EXCEPT ![holders[h].root] = v]
  /\ UNCHANGED <<holders, keyVars, dispatchVars, copyVars, syncVars,
                 tensorVars, handleVars, interopVars, ndVars>>

\* The destructor of a tensor, of a view or of a matrix.
Destroy(h) ==
  /\ h \in Alive
  /\ holders' = [holders EXCEPT ![h].alive = FALSE]
  /\ heap' = IF holders[h].kind = "weak" THEN heap
             ELSE release(heap, holders[h].buf)
  /\ UNCHANGED <<written, keyVars, dispatchVars, copyVars, syncVars,
                 tensorVars, handleVars, interopVars, ndVars>>

BufferInit ==
  /\ has_gpu = FALSE
  /\ BufferIdle
  /\ HandleIdle
  /\ mem = [b \in Buffers |-> [i \in 1..BufLen |-> 0]]
  /\ queue = [s \in GPUStreamIds |-> <<>>]
  /\ copies = 0
  /\ lastCopy = NoCopy
  /\ SyncInit
  /\ NdIdle
  /\ InteropIdle
  /\ TensorIdle
  /\ tokens = <<>>
  /\ dispatch_key = NoKey
  /\ native_key = NoKey
  /\ registry = {}
  /\ lastOp = NoOp

BufferNext ==
  \/ NewTensor
  \/ \E h \in 1..MaxHolders : NewView(h)
  \/ \E h \in 1..MaxHolders : NewWeakView(h)
  \/ \E h \in 1..MaxHolders, v \in WriteValues : Write(h, v)
  \/ \E h \in 1..MaxHolders : Destroy(h)

SpecBuffer == BufferInit /\ [][BufferNext]_vars

\* C23: whatever tensors and views were created, written through and
\* destroyed, (1) every tensor and view reads what was last written through
\* any holder of the buffer of its tensor, (2) a buffer that a tensor or a
\* view still holds is not freed, and (3) a buffer that no tensor and no
\* view holds is freed, also when a weak view of it remains.
C23_BufferAliasingAndLifetime ==
  /\ \A h \in Alive :
       holders[h].kind \in {"tensor", "view"} =>
         /\ holders[h].buf = holders[holders[h].root].buf
         /\ read(holders, heap, h) = written[holders[h].root]
  /\ \A b \in DOMAIN heap :
       /\ Owning(b) # {} => ~heap[b].freed
       /\ Owning(b) = {} => heap[b].freed

\* The tensor has been destroyed while a view and a weak view of it remain,
\* and the buffer holds a value written through one of the three.
C23_Witness ==
  /\ Len(holders) = 3
  /\ holders[1].kind = "tensor" /\ ~holders[1].alive
  /\ holders[2].kind = "view" /\ holders[2].alive
  /\ holders[3].kind = "weak" /\ holders[3].alive
  /\ written[1] = 2
  /\ heap[1].refs = 1

(***************************************************************************)
(* Conversions as a state machine: Init draws a tensor of any rank up to   *)
(* MaxRank, with extents from zero and any strides, or a matrix, and the   *)
(* actions convert it.                                                     *)
(***************************************************************************)
\* A tensor handed to as_h_mat.
InteropTensor(shape, strides) ==
  Tensor("float", "CPU", shape, DimTypes(shape, "Any"), strides,
         "src", ComputeStream("CPU", 0), FALSE)

\* The matrices handed to as_h2_tensor: the leading dimension is at least
\* the height.
Matrices ==
  {mat \in [height : 0..MaxDim, width : 0..MaxDim, buf : {"src"},
            ldim : 1..MaxStride] : mat.ldim >= mat.height}

\* auto matrix = as_h_mat<D>(tensor)
AsHMat ==
  /\ h2_tensor # NoTensor
  /\ converted.op = "none"
  /\ converted' = as_h_mat(h2_tensor)
  /\ UNCHANGED <<h2_tensor, h_matrix, keyVars, dispatchVars, copyVars,
                 syncVars, tensorVars, handleVars, bufferVars, ndVars>>

\* auto tensor = as_h2_tensor(matrix)
AsH2Tensor ==
  /\ h_matrix # NoMatrix
  /\ converted.op = "none"
  /\ converted' = as_h2_tensor(h_matrix)
  /\ UNCHANGED <<h2_tensor, h_matrix, keyVars, dispatchVars, copyVars,
                 syncVars, tensorVars, handleVars, bufferVars, ndVars>>

InteropInit ==
  /\ \/ /\ \E rank \in 0..MaxRank :
               \E shape \in [1..rank -> 0..MaxDim],
                  strides \in [1..rank -> 1..MaxStride] :
                 h2_tensor = InteropTensor(shape, strides)
        /\ h_matrix = NoMatrix
     \/ h2_tensor = NoTensor /\ h_matrix \in Matrices
  /\ converted = Conversion("none", "none", NoMatrix, NoTensor)
  /\ has_gpu = FALSE
  /\ BufferIdle
  /\ HandleIdle
  /\ mem = [b \in Buffers |-> [i \in 1..BufLen |-> 0]]
  /\ queue = [s \in GPUStreamIds |-> <<>>]
  /\ copies = 0
  /\ lastCopy = NoCopy
  /\ SyncInit
  /\ NdIdle
  /\ TensorIdle
  /\ tokens = <<>>
  /\ dispatch_key = NoKey
  /\ native_key = NoKey
  /\ registry = {}
  /\ lastOp = NoOp

InteropNext == AsHMat \/ AsH2Tensor

SpecInterop == InteropInit /\ [][InteropNext]_vars

\* The messages of the std::runtime_error exceptions of as_h_mat.
AsHMatErrors ==
  {"Cannot convert empty tensor to El::Matrix",
   "No-copy conversion only supported for fully-packed or chw-packed tensors"}

\* C24: as_h_mat returns a matrix exactly for the non-empty tensors of rank
\* one or with all dimensions but the slowest packed, and throws a
\* std::runtime_error for every other tensor; for rank above one the width
\* is the extent of the slowest dimension, the height the product of the
\* other extents and the leading dimension the stride of the slowest
\* dimension; a vector of stride one becomes a column (n, 1, ldim n), a
\* vector of another stride a row (1, n, ldim = stride); as_h2_tensor throws
\* for an empty matrix.
C24_MatrixViewOfPackedTensors ==
  LET t == h2_tensor
      rank == Len(t.shape)
      nonempty == rank > 0 /\ \A i \in 1..rank : t.shape[i] > 0
      packed == \A i \in 1..(rank - 1) :
                  t.strides[i] = product(SubSeq(t.shape, 1, i - 1))
      mat == converted.matrix
  IN /\ converted.op = "as_h_mat" =>
          /\ converted.raised = "none" <=> (nonempty /\ (rank = 1 \/ packed))
          /\ converted.raised # "none" => converted.raised \in AsHMatErrors
          /\ (converted.raised = "none" /\ rank > 1) =>
               /\ mat.width = t.shape[rank]
               /\ mat.height = product(SubSeq(t.shape, 1, rank - 1))
               /\ mat.ldim = t.strides[rank]
          /\ (nonempty /\ rank = 1 /\ t.strides[1] = 1) =>
               /\ mat.height = t.shape[1]
               /\ mat.width = 1
               /\ mat.ldim = t.shape[1]
          /\ (nonempty /\ rank = 1 /\ t.strides[1] # 1) =>
               /\ mat.height = 1
               /\ mat.width = t.shape[1]
               /\ mat.ldim = t.strides[1]
     /\ (converted.op = "as_h2_tensor" /\ IsEmpty(h_matrix)) =>
          converted.raised = "Cannot convert empty matrix to Tensor"

\* A tensor of rank three whose two fastest dimensions are packed and whose
\* slowest dimension is padded has been viewed as a matrix.
C24_Witness ==
  /\ converted.op = "as_h_mat"
  /\ converted.raised = "none"
  /\ Len(h2_tensor.shape) = 3
  /\ converted.matrix.height > 1
  /\ converted.matrix.width > 1
  /\ converted.matrix.ldim > converted.matrix.height

(***************************************************************************)
(* Iteration as a state machine: Init draws a shape and a start index;     *)
(* for_ndim is called once, and next_scalar_index is applied step by step  *)
(* from the same start.                                                    *)
(***************************************************************************)
\* The shapes: every rank up to MaxRank, extents from zero.
Shapes == TuplesOver(0..MaxDim, 0, MaxRank)

\* The indices of a shape.
IndicesOf(shape) ==
  {idx \in TuplesOver(0..MaxDim, Len(shape), Len(shape)) :
     is_index_in_shape(idx, shape)}

\* The index the iteration starts at: start, or the all-zero index when no
\* start is given.
FirstIndex ==
  IF region.start = <<>> THEN [dim \in 1..Len(region.shape) |-> 0]
  ELSE region.start

\* for_ndim(shape, f, start)
ForNdim ==
  /\ ~region.called
  /\ region' = [region EXCEPT !.called = TRUE]
  /\ f_calls' = for_ndim(region.shape, region.start)
  /\ UNCHANGED <<walk, keyVars, dispatchVars, copyVars, syncVars,
                 tensorVars, handleVars, bufferVars, interopVars>>

\* idx = next_scalar_index(idx, shape), for an index of the shape.
NextScalarIndex ==
  /\ walk # <<>>
  /\ is_index_in_shape(walk[Len(walk)], region.shape)
  /\ walk' = Append(walk, next_scalar_index(walk[Len(walk)], region.shape))
  /\ UNCHANGED <<region, f_calls, keyVars, dispatchVars, copyVars, syncVars,
                 tensorVars, handleVars, bufferVars, interopVars>>

NdInit ==
  /\ \E shape \in Shapes :
       \E start \in {<<>>} \cup (IndicesOf(shape) \ {<<>>}) :
         region = [shape |-> shape, start |-> start, called |-> FALSE]
  /\ f_calls = <<>>
  /\ walk = IF region.shape # <<>> /\ is_index_in_shape(FirstIndex, region.shape)
            THEN <<FirstIndex>> ELSE <<>>
  /\ InteropIdle
  /\ has_gpu = FALSE
  /\ BufferIdle
  /\ HandleIdle
  /\ mem = [b \in Buffers |-> [i \in 1..BufLen |-> 0]]
  /\ queue = [s \in GPUStreamIds |-> <<>>]
  /\ copies = 0
  /\ lastCopy = NoCopy
  /\ SyncInit
  /\ TensorIdle
  /\ tokens = <<>>
  /\ dispatch_key = NoKey
  /\ native_key = NoKey
  /\ registry = {}
  /\ lastOp = NoOp

NdNext == ForNdim \/ NextScalarIndex

SpecNd == NdInit /\ [][NdNext]_vars

\* The position of an index in the column-major order of a shape, from
\* zero.
LinearPosition(idx, shape) ==
  inner_product(idx, [i \in 1..Len(shape) |-> product(SubSeq(shape, 1, i - 1))])

\* The walk by next_scalar_index has reached the index one past the end.
WalkComplete ==
  walk # <<>> /\ ~is_index_in_shape(walk[Len(walk)], region.shape)

\* C26: for_ndim(shape, f, start) calls f on exactly the indices of shape
\* from start (the all-zero index without start) to the last one, each
\* once, in column-major order (first dimension fastest); the arguments of
\* f are start, next_scalar_index(start), and so on; f is called
\* product(shape) minus the position of start times, and not at all for a
\* shape without dimensions or with a zero extent; next_scalar_index of the
\* last index is the index one past the end, equal to shape.
C26_ForNdimVisitsInOrder ==
  LET shape == region.shape
      n == Len(f_calls)
      first == LinearPosition(FirstIndex, shape)
      last == [dim \in 1..Len(shape) |-> shape[dim] - 1]
  IN /\ region.called =>
          /\ (shape = <<>> \/ \E dim \in 1..Len(shape) : shape[dim] = 0) => n = 0
          /\ shape # <<>> => n = product(shape) - first
          /\ \A k \in 1..n :
               /\ is_index_in_shape(f_calls[k], shape)
               /\ LinearPosition(f_calls[k], shape) = first + k - 1
          /\ \A idx \in IndicesOf(shape) :
               Cardinality({k \in 1..n : f_calls[k] = idx})
                 = IF shape # <<>> /\ LinearPosition(idx, shape) >= first THEN 1
                   ELSE 0
          /\ n > 0 => f_calls[1] = FirstIndex /\ f_calls[n] = last
          /\ \A k \in 1..(n - 1) :
               f_calls[k + 1] = next_scalar_index(f_calls[k], shape)
          /\ n > 0 => next_scalar_index(f_calls[n], shape) = shape
          /\ WalkComplete => walk = Append(f_calls, shape)
     /\ WalkComplete =>
          /\ walk[Len(walk)] = shape
          /\ walk[Len(walk) - 1] = last

\* for_ndim has been called on a shape of three dimensions with a start
\* index in its middle, and the walk by next_scalar_index is complete.
C26_Witness ==
  /\ region.called
  /\ WalkComplete
  /\ Len(region.shape) = 3
  /\ region.start # <<>>
  /\ LinearPosition(region.start, region.shape) > 1
  /\ Len(f_calls) > 2
  /\ \E k \in 1..(Len(f_calls) - 1) : f_calls[k + 1][3] > f_calls[k][3]

\* C27: when all arguments are of compute types,
\* contains_nonnative_compute_type(args...) returns true exactly when at
\* least one argument is of a compute type that is not a native H2 compute
\* type, and false when every argument is native.
C27_TrueIffNonnativePresent ==
  (/\ lastOp.op = "contains_nonnative_compute_type"
   /\ \A i \in 1..Len(lastOp.tinfos) : lastOp.tinfos[i].compute) =>
    /\ lastOp.out.raised = "none"
    /\ lastOp.value
         <=> \E i \in 1..Len(lastOp.tinfos) :
               /\ lastOp.tinfos[i].compute
               /\ lastOp.tinfos[i].token \notin NativeTokens

(***************************************************************************)
(* Key codec specification: the inputs are drawn by Init, the actions      *)
(* apply the two key constructors.                                         *)
(***************************************************************************)
KeyInit ==
  /\ tokens \in GeneralTuples \cup NativeTuples
  /\ dispatch_key = NoKey
  /\ native_key = NoKey
  /\ registry = {}
  /\ lastOp = NoOp
  /\ has_gpu = FALSE
  /\ mem = [b \in Buffers |-> <<>>]
  /\ queue = [s \in GPUStreamIds |-> <<>>]
  /\ copies = 0
  /\ lastCopy = NoCopy
  /\ SyncInit
  /\ NdIdle
  /\ InteropIdle
  /\ BufferIdle
  /\ HandleIdle
  /\ TensorIdle

GetDispatchKey ==
  /\ dispatch_key = NoKey
  /\ Len(tokens) <= max_dispatch_types
  /\ dispatch_key' = get_dispatch_key(tokens)
  /\ UNCHANGED <<tokens, native_key, dispatchVars, copyVars, syncVars, tensorVars,
                 handleVars, bufferVars, interopVars, ndVars>>

GetNativeDispatchKey ==
  /\ native_key = NoKey
  /\ AllNativeTokens(tokens)
  /\ native_key' = get_native_dispatch_key(tokens)
  /\ UNCHANGED <<tokens, dispatch_key, dispatchVars, copyVars, syncVars, tensorVars,
                 handleVars, bufferVars, interopVars, ndVars>>

KeyNext == GetDispatchKey \/ GetNativeDispatchKey

SpecKey == KeyInit /\ [][KeyNext]_vars

(***************************************************************************)
(* Properties of the key codec.                                            *)
(***************************************************************************)
\* The arity stored in the top byte of a general key.
KeyArity(key) == Field(key, dispatch_key_top_byte_shift, 8)

\* The ordered tokens stored in a general key.
DecodeKey(key) ==
  [i \in 1..KeyArity(key) |->
     Field(key, dispatch_bits_per_compute_type * (KeyArity(key) - i),
           dispatch_bits_per_compute_type)]

\* The bit positions of token field f (field 0 is the least significant).
TokenField(f) ==
  (dispatch_bits_per_compute_type * f)
    ..(dispatch_bits_per_compute_type * (f + 1) - 1)

ExtremeTuples == TuplesOver({0, max_token}, 1, max_dispatch_types)

C6_NativeKeyInjective ==
  (native_key # NoKey /\ Len(tokens) <= MaxNativeArity) =>
    LET N == Len(tokens)
    IN /\ \A t \in [1..N -> NativeTokens] :
            t # tokens => get_native_dispatch_key(t) # native_key
       /\ Field(native_key,
                dispatch_bits_per_native_compute_type * (N - 1),
                dispatch_bits_per_native_compute_type) = tokens[1]
       /\ Cardinality({get_native_dispatch_key(t) : t \in [1..2 -> NativeTokens]})
            = NumComputeTypes * NumComputeTypes

\* The native key of the pair (double, int32) has been built.
C6_Witness ==
  /\ native_key # NoKey
  /\ tokens = <<1, 2>>

\* The assertion on a source that has elements and no buffer.
NoData ==
  {"Cannot copy a non-empty tensor with no data",
   "Cannot copy a non-empty distributed tensor with no data"}

\* The source of the copy of process p has elements for p and no buffer.
LocalDataMissing(p) ==
  /\ ~is_local_empty(priors.dtensors[p].src)
  /\ priors.dtensors[p].src.local.data = Null

\* C29 as stated: in copy(dst, src), of tensors and of distributed tensors,
\* the empty-source check comes first: an empty src never raises, whatever
\* the element types are and without a data pointer, and dst is emptied;
\* the no-data assertion and the conversion error occur only for a
\* non-empty src, and the no-data assertion is checked before the
\* conversion error.
C29_EmptyCheckFirst ==
  /\ (Copied /\ is_empty(priors.tensors.src)) =>
       /\ lastCall[0].raised = "none"
       /\ is_empty(tensors.dst)
  /\ (Copied /\ lastCall[0].raised \in NoData \cup ConversionNotSupported) =>
       ~is_empty(priors.tensors.src)
  /\ (Copied /\ ~is_empty(priors.tensors.src)
             /\ priors.tensors.src.data = Null) =>
       lastCall[0].raised \in NoData
  /\ \A p \in Procs :
       /\ (DistCopied(p) /\ is_empty(priors.dtensors[p].src)) =>
            /\ lastCall[p].raised = "none"
            /\ is_empty(dtensors[p].dst)
       /\ (DistCopied(p)
             /\ lastCall[p].raised \in NoData \cup ConversionNotSupported) =>
            ~is_empty(priors.dtensors[p].src)
       /\ (DistCopied(p) /\ GridsAccepted(p)
             /\ ~is_empty(priors.dtensors[p].src) /\ LocalDataMissing(p)) =>
            lastCall[p].raised \in NoData

\* C29 amended: as above for tensors; for distributed tensors the
\* comparison of the grids, which only a debug build makes, precedes the
\* empty-source check, so an empty src never raises when the grids are
\* congruent or the build does not compare them, and raises the grid
\* assertion, leaving dst as it was, otherwise.
C29_EmptyCheckFirstAfterGrids ==
  /\ (Copied /\ is_empty(priors.tensors.src)) =>
       /\ lastCall[0].raised = "none"
       /\ is_empty(tensors.dst)
  /\ (Copied /\ lastCall[0].raised \in NoData \cup ConversionNotSupported) =>
       ~is_empty(priors.tensors.src)
  /\ (Copied /\ ~is_empty(priors.tensors.src)
             /\ priors.tensors.src.data = Null) =>
       lastCall[0].raised \in NoData
  /\ \A p \in Procs :
       /\ (DistCopied(p) /\ is_empty(priors.dtensors[p].src)
             /\ GridsAccepted(p)) =>
            /\ lastCall[p].raised = "none"
            /\ is_empty(dtensors[p].dst)
       /\ (DistCopied(p) /\ is_empty(priors.dtensors[p].src)
             /\ ~GridsAccepted(p)) =>
            /\ lastCall[p].raised
                 = "Cannot copy between DistTensors on non-congruent processor grids"
            /\ dtensors[p].dst = priors.dtensors[p].dst
       /\ (DistCopied(p)
             /\ lastCall[p].raised \in NoData \cup ConversionNotSupported) =>
            ~is_empty(priors.dtensors[p].src)
       /\ (DistCopied(p) /\ GridsAccepted(p)
             /\ ~is_empty(priors.dtensors[p].src) /\ LocalDataMissing(p)) =>
            lastCall[p].raised \in NoData

\* An empty float tensor without a data pointer has been copied to a double
\* tensor that held two elements, and the call returned.
C29_Witness ==
  /\ Copied
  /\ is_empty(priors.tensors.src)
  /\ priors.tensors.src.data = Null
  /\ priors.tensors.src.type # priors.tensors.dst.type
  /\ priors.tensors.dst.shape = <<2>>
  /\ priors.tensors.dst.data # Null
  /\ lastCall[0].raised = "none"

\* The copy of process p raised the non-contiguous-local-data error.
RaisedNonContiguous(p) ==
  /\ DistCopied(p)
  /\ lastCall[p].raised
       = "Copying distributed tensors with non-contiguous local data is not supported"

RECURSIVE PositionalSum(_, _, _)
PositionalSum(toks, i, bits) ==
  IF i >= Len(toks) THEN 0
  ELSE toks[i + 1] * 2^(bits * (Len(toks) - 1 - i))
         + PositionalSum(toks, i + 1, bits)

\* C28: for N native tokens the native key equals the sum of
\* tokens[i] * 2^(bits*(N-1-i)) with bits = ceillog2(NumComputeTypes) and is
\* less than 2^(bits*N); with the 4 native compute types the keys of all
\* N-tuples are exactly 0..4^N-1, so the key used by do_dispatch is an index
\* of the dense table of 4^N entries.
C28_NativeKeyIsDenseIndex ==
  (native_key # NoKey /\ Len(tokens) <= MaxNativeArity) =>
    LET N == Len(tokens)
        bits == ceillog2(NumComputeTypes)
    IN /\ KeyValue(native_key) = PositionalSum(tokens, 0, bits)
       /\ KeyValue(native_key) < 2^(bits * N)
       /\ native_key \subseteq 0..(bits * N - 1)
       /\ NumComputeTypes = 4 =>
            /\ bits = 2
            /\ {KeyValue(get_native_dispatch_key(t)) : t \in [1..N -> NativeTokens]}
                 = 0..(4^N - 1)
            /\ Cardinality(DOMAIN dispatch_table(N)) = 4^N
            /\ KeyValue(native_key) \in DOMAIN dispatch_table(N)

\* The native key of the largest tuple of the largest arity has been built:
\* every token is the last native type, so the key is the last table index.
C28_Witness ==
  /\ native_key # NoKey
  /\ Len(tokens) = MaxNativeArity
  /\ \A i \in 1..Len(tokens) : tokens[i] = NumComputeTypes - 1
  /\ KeyValue(native_key) = NumComputeTypes^MaxNativeArity - 1

====
